---- MODULE Spec2Model ----
(***************************************************************************)
(* The SQS consumer runtime of packages/sqs-consumer (sqs-consumer.ts),    *)
(* with the in-memory idempotency and backoff stores it is configured      *)
(* with.                                                                   *)
(*                                                                         *)
(* One consumer instance runs one polling loop.  A step of the model is    *)
(* one run-to-completion turn of the JavaScript event loop: the code from  *)
(* the resumption of an await to the next await.  The stores are the       *)
(* in-memory ones, whose async methods have no inner await: a store call   *)
(* takes effect when it is made, and the caller resumes in a later turn.   *)
(* The handler and the queue are external: the handler settles with any    *)
(* outcome at any time, the queue returns any batch.  Messages arrive with *)
(* the MessageId and ReceiptHandle the queue protocol gives every          *)
(* delivery; the same MessageId may arrive more than once, also within one *)
(* batch (at-least-once delivery).  Store calls do not throw.  The         *)
(* messagesProcessed / messagesFailed statistics are only logged and are   *)
(* left out.                                                               *)
(*                                                                         *)
(* The second part is the double-buffered aggregator (double-buffer.ts),   *)
(* a separate object with its own state and its own specification,         *)
(* DoubleBufferSpec.  Its flushCallback is external: it settles at any     *)
(* time, with success or with failure.  Under Spec the aggregator stays as *)
(* constructed, under DoubleBufferSpec the consumer does.                  *)
(*                                                                         *)
(* FairSpec is the polling loop with weak fairness of its own steps, for   *)
(* what the loop eventually does; its clock moves only while the loop      *)
(* sleeps.  MetadataSpec is the metadata processMessage hands to the       *)
(* handler.  IdempotencyStoreSpec and BackoffStoreSpec are the in-memory   *)
(* stores called directly, in any order.  ConfigSpec is a consumer         *)
(* constructed with any sqsConfig object.                                  *)
(***************************************************************************)
EXTENDS Integers, Sequences, FiniteSets, TLC

\* ---------------------------------------------------------------- bounds
NumIds == 2
MaxBatch == 2
MaxPolls == 2
MaxTicks == 2
TickMs == 1000
idempotencyTtlSeconds == 1

MsgIds == 1..NumIds

\* the aggregator: keys, values, size threshold, start() calls, flushes
NumKeys == 2
MaxValue == 2
MaxBufferSize == 2
MaxStarts == 2
MaxFlushes == 2

\* message metadata: the receive counts and thresholds tried
MaxReceiveCount == 12

\* the stores called directly: the TTLs tried, the clock's last instant in ticks
MaxTtlSeconds == 2
MaxStoreTicks == 4
\* recordFailure calls on one id between two clear calls
MaxRetries == 3
MaxLoops == 3
MaxInFlight == 2
MaxVisibilityCount == 5

Keys == 1..NumKeys
Values == 1..MaxValue

\* ------------------------------------------------- configuration values
pollIntervalMs == 1000
errorSleepMs == 5000
backoffBaseDelay == 1
backoffBaseDelayUnit == "sec"

\* absent Map entry of the idempotency store
NoExpiry == -1
\* Message.ReceiptHandle undefined
NoReceipt == 0
\* sqsConfig.maxReceiveCount undefined
Undefined == -1

VARIABLES
  config,                    \* SQSConsumerConfig / SQSConsumerOptions
  isRunning,                 \* SQSConsumer.isRunning
  loop,                      \* where poll() is
  sleepUntil,                \* the instant the pending sleep() resolves
  polls,                     \* receives issued so far
  now,                       \* Date.now(), ms
  processedMessages,         \* InMemoryIdempotencyStore.processedMessages
  backoffEntries,            \* InMemoryBackoffStore.backoffEntries
  tasks,                     \* the processMessage calls of the current batch
  cur,                       \* position of the sequential for-loop
  successfulMessages,        \* processMessages locals
  retryMessages,
  permanentFailureMessages,
  deleteCalls,               \* Entries of the DeleteMessageBatch commands sent for the batch
  deleteResults,             \* how each of them settled, "ok" or "error"
  receiveResult,             \* how the last receiveMessages() settled
  sqsConfig,                 \* SQSConsumerConfig.sqsConfig
  loops,                     \* where each poll() invocation of the instance is
  redisCalls,                \* the RedisBackoffStore.recordFailure calls in flight
  redis                      \* per id, the Redis hash under the store's key

consumerVars ==
  <<config, isRunning, loop, sleepUntil, polls, now, processedMessages,
    backoffEntries, tasks, cur, successfulMessages, retryMessages,
    permanentFailureMessages, deleteCalls, deleteResults, receiveResult,
    sqsConfig, loops, redisCalls, redis>>

VARIABLES
  maxBufferSize,             \* DoubleBufferConfig.maxBufferSize, 0 when unset
  bufferA,                   \* DoubleBuffer.bufferA
  bufferB,                   \* DoubleBuffer.bufferB
  activeBuffer,              \* which container DoubleBuffer.activeBuffer refers to
  flushBuffer,               \* which container DoubleBuffer.flushBuffer refers to
  flushTimer,                \* DoubleBuffer.flushTimer, 0 when undefined
  intervals,                 \* the setInterval timers that are live
  timersCreated,             \* setInterval calls so far
  isFlushing,                \* DoubleBuffer.isFlushing
  pending,                   \* flushCallback calls not yet settled, by trigger
  passed,                    \* the argument of the latest flushCallback call not yet
                             \* followed by a successful one
  callbackCalls,             \* flushCallback invocations so far
  emitted,                   \* keys passed to a flushCallback call that succeeded
  everSet,                   \* keys ever passed to set / update
  stopKeys,                  \* everSet when stop() was last called
  writtenSinceStop,          \* set / update was called after that
  event                      \* what the last step was

bufferVars ==
  <<maxBufferSize, bufferA, bufferB, activeBuffer, flushBuffer, flushTimer,
    intervals, timersCreated, isFlushing, pending, passed, callbackCalls,
    emitted, everSet, stopKeys, writtenSinceStop, event>>

VARIABLES
  call,                      \* the last call made on a store or function, with its result
  marks,                     \* per id, the last markProcessed not followed by remove
  retries                    \* per id, the recordFailure calls since the last clear

callVars == <<call, marks, retries>>

vars == <<consumerVars, bufferVars, callVars>>

\* what no step of the polling loop changes
fixedVars == <<callVars, bufferVars, sqsConfig, config, loops, redisCalls, redis>>

\* ------------------------------------------------------------- helpers
RECURSIVE Pow2(_)
Pow2(n) == IF n <= 0 THEN 1 ELSE 2 * Pow2(n - 1)

toMilliseconds(value, unit) ==
  CASE unit = "ms" -> value
    [] unit = "sec" -> value * 1000
    [] unit = "min" -> value * 60 * 1000
    [] unit = "hour" -> value * 60 * 60 * 1000

\* ------------------------------------------------------ message metadata
\* a string of decimal digits is the sequence of its digits; <<>> is the
\* empty string, and stands for an absent attribute too (both are falsy)
Absent == <<>>

\* the decimal rendering the queue gives ApproximateReceiveCount
RECURSIVE toString(_)
toString(n) == IF n < 10 THEN <<n>> ELSE Append(toString(n \div 10), n % 10)

\* mutant: only the last digit is read
parseIntLastDigit(str) == str[Len(str)]

\* parseInt(str, 10) of a non-empty string of digits
RECURSIVE parseInt(_)
parseInt(str) ==
  IF Len(str) = 1
  THEN str[1]
  ELSE 10 * parseInt(SubSeq(str, 1, Len(str) - 1)) + str[Len(str)]

\* the metadata processMessage builds for handler.handle
metadata(ApproximateReceiveCount, maxReceiveCount) ==
  LET retryCount ==
        parseInt(IF ApproximateReceiveCount # Absent THEN ApproximateReceiveCount ELSE <<0>>)
  IN [retryCount |-> retryCount,
      isLastAttempt |-> IF maxReceiveCount # Undefined THEN retryCount >= maxReceiveCount ELSE FALSE]

\* ------------------------------------------ InMemoryIdempotencyStore
\* mutant: an entry is swept only after its expiry instant
cleanupExpiredLate(pm, t) ==
  [m \in MsgIds |-> IF pm[m] # NoExpiry /\ pm[m] < t THEN NoExpiry ELSE pm[m]]

cleanupExpired(pm, t) ==
  [m \in MsgIds |-> IF pm[m] # NoExpiry /\ pm[m] <= t THEN NoExpiry ELSE pm[m]]

\* the Map after hasProcessed (it sweeps), and the value it returns
hasProcessedMap(pm, t) == cleanupExpired(pm, t)
hasProcessed(pm, m, t) == cleanupExpired(pm, t)[m] # NoExpiry

markProcessed(pm, m, ttlSeconds, t) == [pm EXCEPT ![m] = t + ttlSeconds * 1000]

remove(pm, m) == [pm EXCEPT ![m] = NoExpiry]

\* ------------------------------------------------ InMemoryBackoffStore
NoBackoffEntry ==
  [retryCount |-> 0, lastFailureTime |-> 0, baseDelay |-> 0,
   baseDelayUnit |-> "ms", strategy |-> "fixed"]

delayMs(entry) ==
  IF entry.strategy = "fixed"
  THEN toMilliseconds(entry.baseDelay, entry.baseDelayUnit)
  ELSE toMilliseconds(entry.baseDelay, entry.baseDelayUnit) * Pow2(entry.retryCount - 1)

\* mutant: not yet at the retry instant itself
\* HGET / HGETALL on a key that does not exist: every field is null
NoHash ==
  [retryCount |-> <<>>, lastFailureTime |-> <<>>, baseDelay |-> <<>>,
   baseDelayUnit |-> "", strategy |-> ""]

canProcessStrictlyAfter(be, m, t) ==
  IF be[m] = NoBackoffEntry
  THEN TRUE
  ELSE t > be[m].lastFailureTime + delayMs(be[m])

canProcess(be, m, t) ==
  IF be[m] = NoBackoffEntry
  THEN TRUE
  ELSE t >= be[m].lastFailureTime + delayMs(be[m])

recordFailure(be, m, baseDelayMs, strategy, t) ==
  [be EXCEPT ![m] =
     [retryCount |-> IF be[m] = NoBackoffEntry THEN 1 ELSE be[m].retryCount + 1,
      lastFailureTime |-> t,
      baseDelay |-> baseDelayMs,
      baseDelayUnit |-> "ms",
      strategy |-> strategy]]

\* mutant: the first backoff is twice the base delay
recordFailureResultDoubled(be, m, baseDelayMs, strategy, t) ==
  LET retryCount == IF be[m] = NoBackoffEntry THEN 1 ELSE be[m].retryCount + 1
  IN t + (IF strategy = "fixed" THEN baseDelayMs ELSE baseDelayMs * Pow2(retryCount))

\* mutant: the delay halves with every failure
recordFailureResultShrinking(be, m, baseDelayMs, strategy, t) ==
  LET retryCount == IF be[m] = NoBackoffEntry THEN 1 ELSE be[m].retryCount + 1
  IN t + (IF strategy = "fixed" THEN baseDelayMs ELSE baseDelayMs \div Pow2(retryCount - 1))

\* the value recordFailure returns: lastFailureTime.getTime() + delay
recordFailureResult(be, m, baseDelayMs, strategy, t) ==
  LET retryCount == IF be[m] = NoBackoffEntry THEN 1 ELSE be[m].retryCount + 1
      delay == IF strategy = "fixed"
               THEN baseDelayMs
               ELSE baseDelayMs * Pow2(retryCount - 1)
  IN t + delay

getRetryCount(be, m) == IF be[m] = NoBackoffEntry THEN 0 ELSE be[m].retryCount

clear(be, m) == [be EXCEPT ![m] = NoBackoffEntry]

\* --------------------------------------------------- SQSConsumer state
\* retryStrategy is read only when a backoff store is configured
Configs ==
  {c \in [processInParallel : BOOLEAN, idempotencyStore : BOOLEAN,
          backoffStore : BOOLEAN, retryStrategy : {"exponential", "fixed"}] :
     c.backoffStore \/ c.retryStrategy = "exponential"}

\* how sqsClient.send of a DeleteMessageBatchCommand settles
SendResults == {"ok", "error"}

HandlerResults == {"ok", "RetryException", "FailureException", "Error"}

\* the sequences of MessageIds a ReceiveMessage response may carry
RECURSIVE SeqsUpTo(_)
SeqsUpTo(n) ==
  IF n = 0 THEN {<<>>}
  ELSE LET shorter == SeqsUpTo(n - 1)
       IN shorter \cup {Append(q, m) : q \in {x \in shorter : Len(x) = n - 1}, m \in MsgIds}

Batches == SeqsUpTo(MaxBatch) \ {<<>>}

\* a delivery: the queue gives each one its own receipt handle
Message(id, p, k) == [MessageId |-> id, ReceiptHandle |-> 10 * p + k]

newTask(msg) ==
  [msg |-> msg, pc |-> "pending", canProcess |-> TRUE, alreadyProcessed |-> FALSE,
   error |-> "none", calls |-> 0, outcome |-> "none", expiry |-> NoExpiry]

\* the part of the state processMessage works on
PS ==
  [tasks |-> tasks, processedMessages |-> processedMessages,
   backoffEntries |-> backoffEntries, successfulMessages |-> successfulMessages,
   retryMessages |-> retryMessages,
   permanentFailureMessages |-> permanentFailureMessages]

Apply(s) ==
  /\ tasks' = s.tasks
  /\ processedMessages' = s.processedMessages
  /\ backoffEntries' = s.backoffEntries
  /\ successfulMessages' = s.successfulMessages
  /\ retryMessages' = s.retryMessages
  /\ permanentFailureMessages' = s.permanentFailureMessages

IdOf(s, i) == s.tasks[i].msg.MessageId

\* ---------------------------------------------- processMessage, by turn
return(s, i, outcome) ==
  [s EXCEPT !.tasks[i].pc = "returned", !.tasks[i].outcome = outcome]

\* metadata is built and handler.handle is called
dispatch(s, i) ==
  [s EXCEPT !.tasks[i].pc = "awaitHandle", !.tasks[i].calls = @ + 1]

checkIdempotency(s, i, t) ==
  IF config.idempotencyStore
  THEN [s EXCEPT !.processedMessages = hasProcessedMap(@, t),
                 !.tasks[i].alreadyProcessed =
                    hasProcessed(s.processedMessages, IdOf(s, i), t),
                 !.tasks[i].pc = "awaitHasProcessed"]
  ELSE dispatch(s, i)

processMessage(s, i, t) ==
  IF config.backoffStore
  THEN [s EXCEPT !.tasks[i].canProcess = canProcess(s.backoffEntries, IdOf(s, i), t),
                 !.tasks[i].pc = "awaitCanProcess"]
  ELSE checkIdempotency(s, i, t)

\* mutant: the result of canProcess is ignored
afterCanProcessUngated(s, i, t) == checkIdempotency(s, i, t)

afterCanProcess(s, i, t) ==
  IF ~s.tasks[i].canProcess
  THEN return(s, i, "skipped")
  ELSE checkIdempotency(s, i, t)

\* mutant: the result of hasProcessed is ignored
afterHasProcessedAlwaysMarks(s, i, t) ==
  [s EXCEPT !.processedMessages =
               markProcessed(@, IdOf(s, i), idempotencyTtlSeconds, t),
            !.tasks[i].expiry = t + idempotencyTtlSeconds * 1000,
            !.tasks[i].pc = "awaitMarkProcessed"]

afterHasProcessed(s, i, t) ==
  IF s.tasks[i].alreadyProcessed
  THEN return([s EXCEPT !.successfulMessages = Append(@, s.tasks[i].msg)],
              i, "duplicate")
  ELSE [s EXCEPT !.processedMessages =
                    markProcessed(@, IdOf(s, i), idempotencyTtlSeconds, t),
                 !.tasks[i].expiry = t + idempotencyTtlSeconds * 1000,
                 !.tasks[i].pc = "awaitMarkProcessed"]

\* mutant: the message is pushed twice
succeedTwice(s, i) ==
  return([s EXCEPT !.successfulMessages = Append(Append(@, s.tasks[i].msg), s.tasks[i].msg)],
         i, "success")

succeed(s, i) ==
  return([s EXCEPT !.successfulMessages = Append(@, s.tasks[i].msg)], i, "success")

afterHandleOk(s, i) ==
  IF config.backoffStore
  THEN [s EXCEPT !.backoffEntries = clear(@, IdOf(s, i)),
                 !.tasks[i].pc = "awaitClear"]
  ELSE succeed(s, i)

\* mutant: a retried message is collected for deletion
catchRetryPushDeletes(s, i) ==
  return([s EXCEPT !.successfulMessages = Append(@, s.tasks[i].msg)], i, "retry")

\* catch: error instanceof RetryException
catchRetryPush(s, i) ==
  return([s EXCEPT !.retryMessages = Append(@, s.tasks[i].msg)], i, "retry")

catchRetryRecord(s, i, t) ==
  IF config.backoffStore
  THEN [s EXCEPT !.backoffEntries =
                    recordFailure(@, IdOf(s, i),
                                  toMilliseconds(backoffBaseDelay, backoffBaseDelayUnit),
                                  config.retryStrategy, t),
                 !.tasks[i].pc = "awaitRecordFailure"]
  ELSE catchRetryPush(s, i)

catchRetryException(s, i, t) ==
  IF config.idempotencyStore
  THEN [s EXCEPT !.processedMessages = remove(@, IdOf(s, i)),
                 !.tasks[i].pc = "awaitRemove"]
  ELSE catchRetryRecord(s, i, t)

\* catch: error instanceof FailureException
catchFailureException(s, i) ==
  return([s EXCEPT !.permanentFailureMessages = Append(@, s.tasks[i].msg)],
         i, "failure")

\* catch: any other error
catchUnknownPush(s, i) ==
  return([s EXCEPT !.retryMessages = Append(@, s.tasks[i].msg)], i, "retry")

catchUnknownRecord(s, i, t) ==
  IF config.backoffStore
  THEN [s EXCEPT !.backoffEntries =
                    recordFailure(@, IdOf(s, i),
                                  toMilliseconds(backoffBaseDelay, backoffBaseDelayUnit),
                                  config.retryStrategy, t),
                 !.tasks[i].pc = "awaitRecordFailure"]
  ELSE catchUnknownPush(s, i)

\* mutant: the pre-mark is not removed on an unrecognised error
catchUnknownErrorKeepsMark(s, i, t) == catchUnknownRecord(s, i, t)

catchUnknownError(s, i, t) ==
  IF config.idempotencyStore
  THEN [s EXCEPT !.processedMessages = remove(@, IdOf(s, i)),
                 !.tasks[i].pc = "awaitRemove"]
  ELSE catchUnknownRecord(s, i, t)

\* handler.handle settles with result r
afterHandle(s, i, t, r) ==
  LET e == [s EXCEPT !.tasks[i].error = IF r = "ok" THEN "none" ELSE r]
  IN CASE r = "ok" -> afterHandleOk(e, i)
       [] r = "RetryException" -> catchRetryException(e, i, t)
       [] r = "FailureException" -> catchFailureException(e, i)
       [] OTHER -> catchUnknownError(e, i, t)

afterRemove(s, i, t) ==
  IF s.tasks[i].error = "RetryException"
  THEN catchRetryRecord(s, i, t)
  ELSE catchUnknownRecord(s, i, t)

afterRecordFailure(s, i) ==
  IF s.tasks[i].error = "RetryException"
  THEN catchRetryPush(s, i)
  ELSE catchUnknownPush(s, i)

\* ------------------------------------------------------ processMessages
\* Promise.all(messages.map(...)): every call runs to its first await
RECURSIVE startAll(_, _, _)
startAll(s, i, t) ==
  IF i > Len(s.tasks) THEN s ELSE startAll(processMessage(s, i, t), i + 1, t)

\* mutant: the for-loop does not advance
nextIndexStuck(i) == i

nextIndex(i) == i + 1

\* mutant: every message is started at once, whatever the mode
startBatchAllAtOnce(msgs, t) ==
  startAll([PS EXCEPT !.tasks = [k \in 1..Len(msgs) |-> newTask(msgs[k])],
                      !.successfulMessages = <<>>,
                      !.retryMessages = <<>>,
                      !.permanentFailureMessages = <<>>], 1, t)

startBatch(msgs, t) ==
  LET fresh == [PS EXCEPT !.tasks = [k \in 1..Len(msgs) |-> newTask(msgs[k])],
                          !.successfulMessages = <<>>,
                          !.retryMessages = <<>>,
                          !.permanentFailureMessages = <<>>]
  IN IF config.processInParallel
     THEN startAll(fresh, 1, t)
     ELSE processMessage(fresh, 1, t)

\* mutant: the deletes do not wait for the per-message work
allSettledAtOnce == TRUE

allSettled ==
  IF config.processInParallel
  THEN \A i \in 1..Len(tasks) : tasks[i].pc = "returned"
  ELSE cur = Len(tasks) /\ tasks[cur].pc = "returned"

\* mutant: the last message is left out of the Entries
deleteEntriesDropLast(messages) ==
  [k \in 1..(Len(messages) - 1) |->
     [Id |-> k - 1, ReceiptHandle |-> messages[k].ReceiptHandle]]

\* deleteMessages: the Entries of the command, none sent when empty
deleteEntries(messages) ==
  LET withHandle == SelectSeq(messages, LAMBDA msg : msg.ReceiptHandle # NoReceipt)
  IN [k \in 1..Len(withHandle) |->
        [Id |-> k - 1, ReceiptHandle |-> withHandle[k].ReceiptHandle]]

deleteMessages(calls, messages) ==
  IF deleteEntries(messages) = <<>> THEN calls ELSE Append(calls, deleteEntries(messages))

\* mutant: the error of sqsClient.send escapes deleteMessages and
\* processMessages, poll() catches it
deleteSettledRethrows(r, next) ==
  IF r = "error" THEN [loop |-> "sleeping", deleteCalls |-> deleteCalls] ELSE next

\* deleteMessages after sqsClient.send settled with r: an error is caught
\* and logged, processMessages goes on with next
deleteSettled(r, next) == next

\* mutant: permanent failures are not deleted
deletePermanentFailuresSkipped(calls) == [loop |-> "top", deleteCalls |-> calls]

deletePermanentFailures(calls) ==
  IF Len(permanentFailureMessages) > 0
  THEN [loop |-> "awaitDeletePermanent",
        deleteCalls |-> deleteMessages(calls, permanentFailureMessages)]
  ELSE [loop |-> "top", deleteCalls |-> calls]

deleteSuccessful(calls) ==
  IF Len(successfulMessages) > 0
  THEN [loop |-> "awaitDeleteSuccessful",
        deleteCalls |-> deleteMessages(calls, successfulMessages)]
  ELSE deletePermanentFailures(calls)

\* --------------------------------------------------------- DoubleBuffer
\* Map.get of an absent key
NoValue == 0
\* flushTimer undefined
NoTimer == 0

EmptyMap == [k \in Keys |-> NoValue]

keysOf(map) == {k \in Keys : map[k] # NoValue}

size(map) == Cardinality(keysOf(map))

\* the reducer the callers pass to update: (prev, curr) => prev + curr
reducer(prev, curr) == prev + curr

\* the part of the state set, update and flush work on
BS ==
  [bufferA |-> bufferA, bufferB |-> bufferB, activeBuffer |-> activeBuffer,
   flushBuffer |-> flushBuffer, isFlushing |-> isFlushing, pending |-> pending,
   passed |-> passed, callbackCalls |-> callbackCalls]

ApplyBuffer(s) ==
  /\ bufferA' = s.bufferA
  /\ bufferB' = s.bufferB
  /\ activeBuffer' = s.activeBuffer
  /\ flushBuffer' = s.flushBuffer
  /\ isFlushing' = s.isFlushing
  /\ pending' = s.pending
  /\ passed' = s.passed
  /\ callbackCalls' = s.callbackCalls

\* the Map a reference points at
Container(s, ref) == IF ref = "A" THEN s.bufferA ELSE s.bufferB

Put(s, ref, map) ==
  IF ref = "A" THEN [s EXCEPT !.bufferA = map] ELSE [s EXCEPT !.bufferB = map]

\* mutant: during a flush the write goes to the flush buffer
writeToFlushBuffer(s, k, v) ==
  IF s.isFlushing
  THEN Put(s, s.flushBuffer, [Container(s, s.flushBuffer) EXCEPT ![k] = v])
  ELSE Put(s, s.activeBuffer, [Container(s, s.activeBuffer) EXCEPT ![k] = v])

\* this.activeBuffer.set(key, value)
write(s, k, v) ==
  Put(s, s.activeBuffer, [Container(s, s.activeBuffer) EXCEPT ![k] = v])

\* mutant: only activeBuffer is reassigned
swapActiveOnly(s) == [s EXCEPT !.activeBuffer = s.flushBuffer]

\* const temp = activeBuffer; activeBuffer = flushBuffer; flushBuffer = temp
swap(s) == [s EXCEPT !.activeBuffer = s.flushBuffer, !.flushBuffer = s.activeBuffer]

\* mutant: a flush in progress does not stop another one
skipFlushWhenEmptyOnly(s) == size(Container(s, s.activeBuffer)) = 0

\* if (this.isFlushing || this.activeBuffer.size === 0) return
skipFlush(s) == s.isFlushing \/ size(Container(s, s.activeBuffer)) = 0

\* flush() up to its await: the flag, the swap, the call of flushCallback
flush(s, trigger) ==
  IF skipFlush(s)
  THEN s
  ELSE LET w == swap([s EXCEPT !.isFlushing = TRUE])
       IN [w EXCEPT !.pending = Append(@, trigger),
                    !.passed = Container(w, w.flushBuffer),
                    !.callbackCalls = @ + 1]

\* flushCallback resolved: this.flushBuffer.clear(); finally
flushSucceeded(s) ==
  [Put(s, s.flushBuffer, EmptyMap) EXCEPT !.isFlushing = FALSE, !.passed = EmptyMap]

\* mutant: no swap back after a failed flushCallback
flushFailedNoSwapBack(s) == [s EXCEPT !.isFlushing = FALSE]

\* flushCallback rejected: catch (swap back, rethrow); finally
flushFailed(s) == [swap(s) EXCEPT !.isFlushing = FALSE]

\* the size check at the end of set and update
flushIfFull(s, n, trigger) ==
  IF n # 0 /\ size(Container(s, s.activeBuffer)) >= n THEN flush(s, trigger) ELSE s

set(s, n, k, v) == flushIfFull(write(s, k, v), n, "set")

\* mutant: update overwrites, the reducer is not applied
updateOverwrites(s, n, k, v) == flushIfFull(write(s, k, v), n, "update")

update(s, n, k, v) ==
  LET existing == Container(s, s.activeBuffer)[k]
  IN IF existing # NoValue
     THEN flushIfFull(write(s, k, reducer(existing, v)), n, "update")
     ELSE flushIfFull(write(s, k, v), n, "update")

getActiveBufferSize(s) == size(Container(s, s.activeBuffer))

Triggers == {"timer", "set", "update", "forceFlush", "stop"}

\* the triggers whose caller awaits the promise flush() returns
Awaited == {"forceFlush", "stop"}

Event(op, outcome) == [op |-> op, outcome |-> outcome]

\* new DoubleBuffer(config, flushCallback)
DoubleBuffer(n) ==
  /\ maxBufferSize = n
  /\ bufferA = EmptyMap
  /\ bufferB = EmptyMap
  /\ activeBuffer = "A"
  /\ flushBuffer = "B"
  /\ flushTimer = NoTimer
  /\ intervals = {}
  /\ timersCreated = 0
  /\ isFlushing = FALSE
  /\ pending = <<>>
  /\ passed = EmptyMap
  /\ callbackCalls = 0
  /\ emitted = {}
  /\ everSet = {}
  /\ stopKeys = {}
  /\ writtenSinceStop = FALSE
  /\ event = Event("new", "returned")

\* an sqsConfig as createSQSQueueConfig builds it from an environment that
\* only sets the queue URL
DefaultSqsConfig ==
  [queueUrl |-> "url", maxNumberOfMessages |-> 10, waitTimeSeconds |-> 20,
   maxReceiveCount |-> Undefined]

NoCall == [op |-> "none"]
NoMark == [marked |-> FALSE, at |-> 0, ttlSeconds |-> 0]
NoRetries == [count |-> 0, nextRetryTime |-> 0, baseDelayMs |-> 0, strategy |-> "none"]

\* new SQSConsumer(config, ...), not started
SQSConsumer(q, c) ==
  /\ sqsConfig = q
  /\ config = c
  /\ isRunning = FALSE
  /\ loop = "none"
  /\ sleepUntil = 0
  /\ polls = 0
  /\ now = 0
  /\ processedMessages = [m \in MsgIds |-> NoExpiry]
  /\ backoffEntries = [m \in MsgIds |-> NoBackoffEntry]
  /\ tasks = <<>>
  /\ cur = 0
  /\ successfulMessages = <<>>
  /\ retryMessages = <<>>
  /\ permanentFailureMessages = <<>>
  /\ deleteCalls = <<>>
  /\ deleteResults = <<>>
  /\ receiveResult = "none"
  /\ loops = <<>>
  /\ redisCalls = <<>>
  /\ redis = [m \in MsgIds |-> NoHash]

\* no store or function call has been made
NoCalls ==
  /\ call = NoCall
  /\ marks = [m \in MsgIds |-> NoMark]
  /\ retries = [m \in MsgIds |-> NoRetries]

\* ----------------------------------------------------------------- Init
Init ==
  /\ NoCalls
  /\ DoubleBuffer(0)
  /\ \E c \in Configs : SQSConsumer(DefaultSqsConfig, c)

batchVars ==
  <<processedMessages, backoffEntries, tasks, cur, successfulMessages,
    retryMessages, permanentFailureMessages, deleteCalls, deleteResults>>

\* -------------------------------------------------------------- actions
\* start(): sets the flag and runs poll() up to its first await
Start ==
  /\ ~isRunning
  /\ loop \in {"none", "exited"}
  /\ polls < MaxPolls
  /\ isRunning' = TRUE
  /\ loop' = "awaitReceive"
  /\ polls' = polls + 1
  /\ UNCHANGED <<fixedVars, receiveResult, sleepUntil, now, batchVars>>

Stop ==
  /\ isRunning
  /\ isRunning' = FALSE
  /\ UNCHANGED <<fixedVars, receiveResult, loop, sleepUntil, polls, now, batchVars>>

Tick ==
  /\ now < MaxTicks * TickMs
  /\ now' = now + TickMs
  /\ UNCHANGED <<fixedVars, receiveResult, isRunning, loop, sleepUntil, polls, batchVars>>

\* mutant: the loop condition is not read
PollLoopNoExit ==
  /\ loop = "top"
  /\ polls < MaxPolls
  /\ loop' = "awaitReceive"
  /\ polls' = polls + 1
  /\ UNCHANGED <<fixedVars, receiveResult, isRunning, sleepUntil, now, batchVars>>

\* while (this.isRunning) { receiveMessages() ...
PollLoop ==
  /\ loop = "top"
  /\ IF isRunning
     THEN /\ polls < MaxPolls
          /\ loop' = "awaitReceive"
          /\ polls' = polls + 1
     ELSE /\ loop' = "exited"
          /\ polls' = polls
  /\ UNCHANGED <<fixedVars, receiveResult, isRunning, sleepUntil, now, batchVars>>

ReceiveMessages(ids) ==
  /\ loop = "awaitReceive"
  /\ receiveResult' = "messages"
  /\ LET msgs == [k \in 1..Len(ids) |-> Message(ids[k], polls, k)]
     IN Apply(startBatch(msgs, now))
  /\ cur' = 1
  /\ deleteCalls' = <<>>
  /\ deleteResults' = <<>>
  /\ loop' = "processing"
  /\ UNCHANGED <<fixedVars, isRunning, sleepUntil, polls, now>>

ReceiveEmpty ==
  /\ loop = "awaitReceive"
  /\ receiveResult' = "empty"
  /\ sleepUntil' = now + pollIntervalMs
  /\ loop' = "sleeping"
  /\ UNCHANGED <<fixedVars, isRunning, polls, now, batchVars>>

\* mutant: the error ends the loop
ReceiveErrorFatal ==
  /\ loop = "awaitReceive"
  /\ receiveResult' = "error"
  /\ isRunning' = FALSE
  /\ loop' = "exited"
  /\ UNCHANGED <<fixedVars, sleepUntil, polls, now, batchVars>>

\* receiveMessages() rejects: poll() logs and sleeps 5 s
ReceiveError ==
  /\ loop = "awaitReceive"
  /\ receiveResult' = "error"
  /\ sleepUntil' = now + errorSleepMs
  /\ loop' = "sleeping"
  /\ UNCHANGED <<fixedVars, isRunning, polls, now, batchVars>>

WakeUp ==
  /\ loop = "sleeping"
  /\ now >= sleepUntil
  /\ loop' = "top"
  /\ UNCHANGED <<fixedVars, receiveResult, isRunning, sleepUntil, polls, now, batchVars>>

TaskStep(s) ==
  /\ Apply(s)
  /\ UNCHANGED <<fixedVars, receiveResult, isRunning, loop, sleepUntil, polls, now, cur, deleteCalls,
                 deleteResults>>

ResumeCanProcess(i) ==
  /\ loop = "processing" /\ tasks[i].pc = "awaitCanProcess"
  /\ TaskStep(afterCanProcess(PS, i, now))

ResumeHasProcessed(i) ==
  /\ loop = "processing" /\ tasks[i].pc = "awaitHasProcessed"
  /\ TaskStep(afterHasProcessed(PS, i, now))

ResumeMarkProcessed(i) ==
  /\ loop = "processing" /\ tasks[i].pc = "awaitMarkProcessed"
  /\ TaskStep(dispatch(PS, i))

HandlerSettles(i, r) ==
  /\ loop = "processing" /\ tasks[i].pc = "awaitHandle"
  /\ TaskStep(afterHandle(PS, i, now, r))

ResumeClear(i) ==
  /\ loop = "processing" /\ tasks[i].pc = "awaitClear"
  /\ TaskStep(succeed(PS, i))

ResumeRemove(i) ==
  /\ loop = "processing" /\ tasks[i].pc = "awaitRemove"
  /\ TaskStep(afterRemove(PS, i, now))

ResumeRecordFailure(i) ==
  /\ loop = "processing" /\ tasks[i].pc = "awaitRecordFailure"
  /\ TaskStep(afterRecordFailure(PS, i))

\* for (const message of messages): the next iteration
NextMessage ==
  /\ loop = "processing"
  /\ ~config.processInParallel
  /\ tasks[cur].pc = "returned"
  /\ cur < Len(tasks)
  /\ cur' = nextIndex(cur)
  /\ Apply(processMessage(PS, nextIndex(cur), now))
  /\ UNCHANGED <<fixedVars, receiveResult, isRunning, loop, sleepUntil, polls, now,
                 deleteCalls, deleteResults>>

\* the per-message work is over: the deletes
DeleteBatch ==
  /\ loop = "processing"
  /\ allSettled
  /\ loop' = deleteSuccessful(deleteCalls).loop
  /\ deleteCalls' = deleteSuccessful(deleteCalls).deleteCalls
  /\ UNCHANGED <<fixedVars, receiveResult, isRunning, sleepUntil, polls, now, processedMessages,
                 backoffEntries, tasks, cur, successfulMessages, retryMessages,
                 permanentFailureMessages, deleteResults>>

\* the DeleteMessageBatch for successfulMessages settles
DeleteSuccessfulSettles(r) ==
  /\ loop = "awaitDeleteSuccessful"
  /\ deleteResults' = Append(deleteResults, r)
  /\ loop' = deleteSettled(r, deletePermanentFailures(deleteCalls)).loop
  /\ deleteCalls' = deleteSettled(r, deletePermanentFailures(deleteCalls)).deleteCalls
  /\ UNCHANGED <<fixedVars, receiveResult, isRunning, sleepUntil, polls, now, processedMessages,
                 backoffEntries, tasks, cur, successfulMessages, retryMessages,
                 permanentFailureMessages>>

DeletePermanentSettles(r) ==
  /\ loop = "awaitDeletePermanent"
  /\ deleteResults' = Append(deleteResults, r)
  /\ loop' = deleteSettled(r, [loop |-> "top", deleteCalls |-> deleteCalls]).loop
  /\ UNCHANGED <<fixedVars, receiveResult, isRunning, sleepUntil, polls, now, processedMessages,
                 backoffEntries, tasks, cur, successfulMessages, retryMessages,
                 permanentFailureMessages, deleteCalls>>

Next ==
  \/ Start
  \/ Stop
  \/ Tick
  \/ PollLoop
  \/ \E ids \in Batches : ReceiveMessages(ids)
  \/ ReceiveEmpty
  \/ ReceiveError
  \/ WakeUp
  \/ \E i \in 1..Len(tasks) : ResumeCanProcess(i)
  \/ \E i \in 1..Len(tasks) : ResumeHasProcessed(i)
  \/ \E i \in 1..Len(tasks) : ResumeMarkProcessed(i)
  \/ \E i \in 1..Len(tasks), r \in HandlerResults : HandlerSettles(i, r)
  \/ \E i \in 1..Len(tasks) : ResumeClear(i)
  \/ \E i \in 1..Len(tasks) : ResumeRemove(i)
  \/ \E i \in 1..Len(tasks) : ResumeRecordFailure(i)
  \/ NextMessage
  \/ DeleteBatch
  \/ \E r \in SendResults : DeleteSuccessfulSettles(r)
  \/ \E r \in SendResults : DeletePermanentSettles(r)

Spec == Init /\ [][Next]_vars

\* ------------------------------------------------- the loop under fairness
\* the clock reaches the instant of the pending sleep()
SleepElapses ==
  /\ loop = "sleeping"
  /\ now < sleepUntil
  /\ now' = sleepUntil
  /\ UNCHANGED <<fixedVars, receiveResult, isRunning, loop, sleepUntil, polls, batchVars>>

\* the steps the event loop takes by itself: every call the consumer awaits
\* (receive, store, handler, delete, sleep) settles, and its continuation runs
Progress ==
  \/ PollLoop
  \/ \E ids \in Batches : ReceiveMessages(ids)
  \/ ReceiveEmpty
  \/ ReceiveError
  \/ SleepElapses
  \/ WakeUp
  \/ \E i \in 1..Len(tasks) : ResumeCanProcess(i)
  \/ \E i \in 1..Len(tasks) : ResumeHasProcessed(i)
  \/ \E i \in 1..Len(tasks) : ResumeMarkProcessed(i)
  \/ \E i \in 1..Len(tasks), r \in HandlerResults : HandlerSettles(i, r)
  \/ \E i \in 1..Len(tasks) : ResumeClear(i)
  \/ \E i \in 1..Len(tasks) : ResumeRemove(i)
  \/ \E i \in 1..Len(tasks) : ResumeRecordFailure(i)
  \/ NextMessage
  \/ DeleteBatch
  \/ \E r \in SendResults : DeleteSuccessfulSettles(r)
  \/ \E r \in SendResults : DeletePermanentSettles(r)

\* start() and stop() are the caller's; time passes only while the loop sleeps
FairNext ==
  \/ Start
  \/ Stop
  \/ Progress

FairSpec == Init /\ [][FairNext]_vars /\ WF_vars(Progress)

\* ------------------------------------------------- DoubleBuffer actions
\* flushCallback is invoked at most MaxFlushes times
WithinFlushes(s) == s.callbackCalls <= MaxFlushes

\* what the caller of an awaiting operation sees when flush() has run to
\* its first await
CallOutcome(s) == IF s.pending # pending THEN "pending" ELSE "returned"

Without(q, i) == [k \in 1..(Len(q) - 1) |-> IF k < i THEN q[k] ELSE q[k + 1]]

\* start(): setInterval
BufferStart ==
  /\ timersCreated < MaxStarts
  /\ timersCreated' = timersCreated + 1
  /\ intervals' = intervals \cup {timersCreated + 1}
  /\ flushTimer' = timersCreated + 1
  /\ event' = Event("start", "returned")
  /\ UNCHANGED <<callVars, consumerVars, maxBufferSize, bufferA, bufferB, activeBuffer,
                 flushBuffer, isFlushing, pending, passed, callbackCalls,
                 emitted, everSet, stopKeys, writtenSinceStop>>

\* stop(): clearInterval, then await this.flush()
BufferStop ==
  /\ WithinFlushes(flush(BS, "stop"))
  /\ intervals' = IF flushTimer # NoTimer THEN intervals \ {flushTimer} ELSE intervals
  /\ flushTimer' = NoTimer
  /\ stopKeys' = everSet
  /\ writtenSinceStop' = FALSE
  /\ ApplyBuffer(flush(BS, "stop"))
  /\ event' = Event("stop", CallOutcome(flush(BS, "stop")))
  /\ UNCHANGED <<callVars, consumerVars, maxBufferSize, timersCreated, emitted, everSet>>

Set(k, v) ==
  /\ WithinFlushes(set(BS, maxBufferSize, k, v))
  /\ ApplyBuffer(set(BS, maxBufferSize, k, v))
  /\ everSet' = everSet \cup {k}
  /\ writtenSinceStop' = TRUE
  /\ event' = Event("set", "returned")
  /\ UNCHANGED <<callVars, consumerVars, maxBufferSize, flushTimer, intervals, timersCreated,
                 emitted, stopKeys>>

Update(k, v) ==
  /\ Container(BS, activeBuffer)[k] # NoValue =>
       reducer(Container(BS, activeBuffer)[k], v) \in Values
  /\ WithinFlushes(update(BS, maxBufferSize, k, v))
  /\ ApplyBuffer(update(BS, maxBufferSize, k, v))
  /\ everSet' = everSet \cup {k}
  /\ writtenSinceStop' = TRUE
  /\ event' = Event("update", "returned")
  /\ UNCHANGED <<callVars, consumerVars, maxBufferSize, flushTimer, intervals, timersCreated,
                 emitted, stopKeys>>

\* the setInterval callback: this.flush(), not awaited
TimerFires(h) ==
  /\ h \in intervals
  /\ WithinFlushes(flush(BS, "timer"))
  /\ ApplyBuffer(flush(BS, "timer"))
  /\ event' = Event("timer", "returned")
  /\ UNCHANGED <<callVars, consumerVars, maxBufferSize, flushTimer, intervals, timersCreated,
                 emitted, everSet, stopKeys, writtenSinceStop>>

ForceFlush ==
  /\ WithinFlushes(flush(BS, "forceFlush"))
  /\ ApplyBuffer(flush(BS, "forceFlush"))
  /\ event' = Event("forceFlush", CallOutcome(flush(BS, "forceFlush")))
  /\ UNCHANGED <<callVars, consumerVars, maxBufferSize, flushTimer, intervals, timersCreated,
                 emitted, everSet, stopKeys, writtenSinceStop>>

\* flushCallback resolves; an awaiting caller (forceFlush, stop) returns
FlushCallbackResolves(i) ==
  /\ ApplyBuffer(flushSucceeded([BS EXCEPT !.pending = Without(pending, i)]))
  /\ emitted' = emitted \cup keysOf(passed)
  /\ event' = Event(pending[i], IF pending[i] \in Awaited THEN "completed" ELSE "resolved")
  /\ UNCHANGED <<callVars, consumerVars, maxBufferSize, flushTimer, intervals, timersCreated,
                 everSet, stopKeys, writtenSinceStop>>

\* flushCallback rejects; the error reaches an awaiting caller, or nobody
FlushCallbackRejects(i) ==
  /\ ApplyBuffer(flushFailed([BS EXCEPT !.pending = Without(pending, i)]))
  /\ event' = Event(pending[i],
                    IF pending[i] \in Awaited THEN "threw" ELSE "unhandledRejection")
  /\ UNCHANGED <<callVars, consumerVars, maxBufferSize, flushTimer, intervals, timersCreated,
                 emitted, everSet, stopKeys, writtenSinceStop>>

DefaultConfig ==
  [processInParallel |-> FALSE, idempotencyStore |-> FALSE, backoffStore |-> FALSE,
   retryStrategy |-> "exponential"]

DoubleBufferInit ==
  /\ NoCalls
  /\ \E n \in {0, MaxBufferSize} : DoubleBuffer(n)
  /\ SQSConsumer(DefaultSqsConfig, DefaultConfig)

DoubleBufferNext ==
  \/ BufferStart
  \/ BufferStop
  \/ \E k \in Keys, v \in Values : Set(k, v)
  \/ \E k \in Keys, v \in Values : Update(k, v)
  \/ \E h \in 1..MaxStarts : TimerFires(h)
  \/ ForceFlush
  \/ \E i \in 1..Len(pending) : FlushCallbackResolves(i)
  \/ \E i \in 1..Len(pending) : FlushCallbackRejects(i)

DoubleBufferSpec == DoubleBufferInit /\ [][DoubleBufferNext]_vars

\* ------------------------------------------------------ metadata actions
ReceiveCounts == 0..MaxReceiveCount

\* handler.handle(message, metadata) for a delivery the queue has handed out
\* n times before, with or without the attribute
Dispatch(n, withAttribute) ==
  /\ LET attr == IF withAttribute THEN toString(n) ELSE Absent
     IN call' = [op |-> "handle", receiveCount |-> n, attribute |-> attr,
                 metadata |-> metadata(attr, sqsConfig.maxReceiveCount)]
  /\ UNCHANGED <<consumerVars, bufferVars, marks, retries>>

MetadataInit ==
  /\ NoCalls
  /\ DoubleBuffer(0)
  /\ \E max \in ReceiveCounts \cup {Undefined} :
       SQSConsumer([DefaultSqsConfig EXCEPT !.maxReceiveCount = max], DefaultConfig)

MetadataNext == \E n \in ReceiveCounts, withAttribute \in BOOLEAN : Dispatch(n, withAttribute)

MetadataSpec == MetadataInit /\ [][MetadataNext]_vars

\* ------------------------------------- InMemoryIdempotencyStore actions
\* the store called directly, in any order, while the clock advances
Ttls == 0..MaxTtlSeconds

StoreMarkProcessed(m, ttlSeconds) ==
  /\ processedMessages' = markProcessed(processedMessages, m, ttlSeconds, now)
  /\ marks' = [marks EXCEPT ![m] = [marked |-> TRUE, at |-> now, ttlSeconds |-> ttlSeconds]]
  /\ call' = [op |-> "markProcessed", id |-> m]
  /\ UNCHANGED <<bufferVars, retries, loops, redisCalls, redis, config, isRunning, loop, sleepUntil, polls, now,
                 backoffEntries, tasks, cur, successfulMessages, retryMessages,
                 permanentFailureMessages, deleteCalls, deleteResults, receiveResult,
                 sqsConfig>>

StoreRemove(m) ==
  /\ processedMessages' = remove(processedMessages, m)
  /\ marks' = [marks EXCEPT ![m] = NoMark]
  /\ call' = [op |-> "remove", id |-> m]
  /\ UNCHANGED <<bufferVars, retries, loops, redisCalls, redis, config, isRunning, loop, sleepUntil, polls, now,
                 backoffEntries, tasks, cur, successfulMessages, retryMessages,
                 permanentFailureMessages, deleteCalls, deleteResults, receiveResult,
                 sqsConfig>>

StoreHasProcessed(m) ==
  /\ processedMessages' = hasProcessedMap(processedMessages, now)
  /\ call' = [op |-> "hasProcessed", id |-> m,
              result |-> hasProcessed(processedMessages, m, now)]
  /\ UNCHANGED <<bufferVars, marks, retries, loops, redisCalls, redis, config, isRunning, loop, sleepUntil, polls,
                 now, backoffEntries, tasks, cur, successfulMessages, retryMessages,
                 permanentFailureMessages, deleteCalls, deleteResults, receiveResult,
                 sqsConfig>>

\* Date.now() moves on between two calls
ClockAdvances ==
  /\ now < MaxStoreTicks * TickMs
  /\ now' = now + TickMs
  /\ call' = NoCall
  /\ UNCHANGED <<bufferVars, marks, retries, loops, redisCalls, redis, config, isRunning, loop, sleepUntil, polls,
                 processedMessages, backoffEntries, tasks, cur, successfulMessages,
                 retryMessages, permanentFailureMessages, deleteCalls, deleteResults,
                 receiveResult, sqsConfig>>

StoreInit ==
  /\ NoCalls
  /\ DoubleBuffer(0)
  /\ SQSConsumer(DefaultSqsConfig, DefaultConfig)

IdempotencyStoreNext ==
  \/ \E m \in MsgIds, ttlSeconds \in Ttls : StoreMarkProcessed(m, ttlSeconds)
  \/ \E m \in MsgIds : StoreRemove(m)
  \/ \E m \in MsgIds : StoreHasProcessed(m)
  \/ ClockAdvances

IdempotencyStoreSpec == StoreInit /\ [][IdempotencyStoreNext]_vars

\* ----------------------------------------- InMemoryBackoffStore actions
\* the store called directly, in any order, while the clock advances
BaseDelays == {1000, 3000}
Strategies == {"exponential", "fixed"}

StoreRecordFailure(m, baseDelayMs, strategy) ==
  /\ retries[m].count < MaxRetries
  /\ backoffEntries' = recordFailure(backoffEntries, m, baseDelayMs, strategy, now)
  /\ LET result == recordFailureResult(backoffEntries, m, baseDelayMs, strategy, now)
     IN /\ call' = [op |-> "recordFailure", id |-> m, baseDelayMs |-> baseDelayMs,
                     strategy |-> strategy, result |-> result, previous |-> retries[m]]
        /\ retries' = [retries EXCEPT ![m] =
                          [count |-> @.count + 1, nextRetryTime |-> result,
                           baseDelayMs |-> baseDelayMs, strategy |-> strategy]]
  /\ UNCHANGED <<bufferVars, marks, loops, redisCalls, redis, config, isRunning, loop, sleepUntil, polls, now,
                 processedMessages, tasks, cur, successfulMessages, retryMessages,
                 permanentFailureMessages, deleteCalls, deleteResults, receiveResult,
                 sqsConfig>>

StoreCanProcess(m) ==
  /\ call' = [op |-> "canProcess", id |-> m, result |-> canProcess(backoffEntries, m, now)]
  /\ UNCHANGED <<consumerVars, bufferVars, marks, retries>>

StoreGetRetryCount(m) ==
  /\ call' = [op |-> "getRetryCount", id |-> m, result |-> getRetryCount(backoffEntries, m)]
  /\ UNCHANGED <<consumerVars, bufferVars, marks, retries>>

StoreClear(m) ==
  /\ backoffEntries' = clear(backoffEntries, m)
  /\ retries' = [retries EXCEPT ![m] = NoRetries]
  /\ call' = [op |-> "clear", id |-> m]
  /\ UNCHANGED <<bufferVars, marks, loops, redisCalls, redis, config, isRunning, loop, sleepUntil, polls, now,
                 processedMessages, tasks, cur, successfulMessages, retryMessages,
                 permanentFailureMessages, deleteCalls, deleteResults, receiveResult,
                 sqsConfig>>

BackoffStoreNext ==
  \/ \E m \in MsgIds, baseDelayMs \in BaseDelays, strategy \in Strategies :
       StoreRecordFailure(m, baseDelayMs, strategy)
  \/ \E m \in MsgIds : StoreCanProcess(m)
  \/ \E m \in MsgIds : StoreGetRetryCount(m)
  \/ \E m \in MsgIds : StoreClear(m)
  \/ ClockAdvances

BackoffStoreSpec == StoreInit /\ [][BackoffStoreNext]_vars

\* -------------------------------------------------------- configuration
\* sqsQueueConfigSchema.parse accepts: z.string().url(), min(1).max(10),
\* min(0).max(20)
sqsQueueConfigSchema(q) ==
  /\ q.queueUrl = "url"
  /\ q.maxNumberOfMessages >= 1 /\ q.maxNumberOfMessages <= 10
  /\ q.waitTimeSeconds >= 0 /\ q.waitTimeSeconds <= 20

\* the sqsConfig objects a caller may hand to new SQSConsumer: at, and just
\* outside, the limits of the schema
SqsConfigs ==
  [queueUrl : {"url", "malformed"}, maxNumberOfMessages : {0, 1, 10, 11},
   waitTimeSeconds : {-1, 0, 20, 21}, maxReceiveCount : {Undefined}]

\* new SQSConsumer({sqsConfig, ...}, handler): the constructor stores the
\* object it is given
ConfigInit ==
  /\ NoCalls
  /\ DoubleBuffer(0)
  /\ \E q \in SqsConfigs : SQSConsumer(q, DefaultConfig)

\* the consumer on a queue that delivers nothing
ConfigNext ==
  \/ Start
  \/ Stop
  \/ PollLoop
  \/ ReceiveEmpty
  \/ ReceiveError
  \/ SleepElapses
  \/ WakeUp

ConfigSpec == ConfigInit /\ [][ConfigNext]_vars

\* ------------------------------------------------------------ properties
\* the batch pipeline is over and the next batch has not arrived
BatchDone ==
  /\ Len(tasks) > 0
  /\ loop \in {"top", "awaitReceive", "sleeping", "exited"}

InBucket(msg, bucket) == \E k \in 1..Len(bucket) : bucket[k] = msg

Occurrences(msg, bucket) == Cardinality({k \in 1..Len(bucket) : bucket[k] = msg})

\* how many entries of the batch's DeleteMessageBatch commands carry the handle
DeleteCount(h) ==
  Cardinality({ck \in {<<c, k>> : c \in 1..Len(deleteCalls), k \in 1..MaxBatch} :
                 /\ ck[2] <= Len(deleteCalls[ck[1]])
                 /\ deleteCalls[ck[1]][ck[2]].ReceiptHandle = h})

Handle(i) == tasks[i].msg.ReceiptHandle

Tasks == 1..Len(tasks)

\* C1: once a batch's pipeline is over (before the next receive returns),
\* every message classified success (handler returned, or idempotency hit)
\* or failure (FailureException) has its receipt handle in exactly one entry
\* of the DeleteMessageBatch commands sent for the batch.
C1_DeletedExactlyOnce ==
  BatchDone =>
    \A i \in Tasks :
      tasks[i].outcome \in {"success", "duplicate", "failure"} => DeleteCount(Handle(i)) = 1

C1_Witness ==
  /\ BatchDone
  /\ \E i, j \in Tasks :
       /\ tasks[i].outcome = "success" /\ tasks[j].outcome = "failure"
       /\ DeleteCount(Handle(i)) = 1 /\ DeleteCount(Handle(j)) = 1

\* C2: a message classified retry is in no entry of any DeleteMessageBatch
\* command sent for its batch, whatever the other messages' outcomes.
C2_RetryNeverDeleted ==
  \A i \in Tasks : tasks[i].outcome = "retry" => DeleteCount(Handle(i)) = 0

C2_Witness ==
  /\ BatchDone
  /\ Len(deleteCalls) > 0
  /\ \E i \in Tasks : tasks[i].outcome = "retry" /\ tasks[i].error = "RetryException"

\* the catch branch of task i run to its return, no other task in between
RECURSIVE finishCatch(_, _, _)
finishCatch(s, i, t) ==
  CASE s.tasks[i].pc = "awaitRemove" -> finishCatch(afterRemove(s, i, t), i, t)
    [] s.tasks[i].pc = "awaitRecordFailure" -> finishCatch(afterRecordFailure(s, i), i, t)
    [] OTHER -> s

ThrowResult(i, r) ==
  [finishCatch(afterHandle(PS, i, now, r), i, now) EXCEPT !.tasks[i].error = "thrown"]

\* C3: a throw that is neither RetryException nor FailureException is
\* handled as a RetryException: from every state in which a handler call is
\* pending, both throws leave the same buckets, the same idempotency and
\* backoff stores and the same task result; and a message whose handler
\* threw such an error ends in the retry bucket and in no delete entry.
C3_UnknownThrowIsRetry ==
  /\ loop = "processing" =>
       \A i \in Tasks :
         tasks[i].pc = "awaitHandle" => ThrowResult(i, "Error") = ThrowResult(i, "RetryException")
  /\ \A i \in Tasks :
       (tasks[i].error = "Error" /\ tasks[i].pc = "returned") =>
         /\ tasks[i].outcome = "retry"
         /\ Occurrences(tasks[i].msg, retryMessages) = 1
         /\ ~InBucket(tasks[i].msg, successfulMessages)
         /\ ~InBucket(tasks[i].msg, permanentFailureMessages)
         /\ DeleteCount(Handle(i)) = 0

C3_Witness ==
  /\ BatchDone
  /\ config.idempotencyStore /\ config.backoffStore
  /\ \E i \in Tasks :
       /\ tasks[i].error = "Error" /\ tasks[i].outcome = "retry"
       /\ getRetryCount(backoffEntries, tasks[i].msg.MessageId) > 0
       /\ processedMessages[tasks[i].msg.MessageId] = NoExpiry

\* C4: for every delivery (one occurrence of a message in one received
\* batch) the handler is invoked at most once, in both dispatch modes.
C4_HandlerAtMostOncePerDelivery ==
  \A i \in Tasks : tasks[i].calls <= 1

C4_Witness ==
  /\ BatchDone
  /\ Len(tasks) = MaxBatch
  /\ ~config.processInParallel
  /\ \A i \in Tasks : tasks[i].calls = 1

\* C5: when an idempotency store is configured and hasProcessed(m) answers
\* true for a delivery (one that passed the backoff check), the handler is
\* not invoked for it, the message goes to successfulMessages, and a delete
\* entry is sent for it.
C5_DuplicateSuppressed ==
  \A i \in Tasks :
    tasks[i].alreadyProcessed =>
      /\ config.idempotencyStore
      /\ tasks[i].calls = 0
      /\ tasks[i].pc \in {"awaitHasProcessed", "returned"}
      /\ tasks[i].pc = "returned" =>
           /\ tasks[i].outcome = "duplicate"
           /\ Occurrences(tasks[i].msg, successfulMessages) = 1
      /\ BatchDone => DeleteCount(Handle(i)) = 1

C5_Witness ==
  /\ BatchDone
  /\ \E i \in Tasks :
       /\ tasks[i].alreadyProcessed /\ tasks[i].calls = 0
       /\ DeleteCount(Handle(i)) = 1

InNoBucket(msg) ==
  /\ ~InBucket(msg, successfulMessages)
  /\ ~InBucket(msg, retryMessages)
  /\ ~InBucket(msg, permanentFailureMessages)

C6_Gated ==
  \A i \in Tasks :
    /\ ~tasks[i].canProcess =>
         /\ config.backoffStore
         /\ tasks[i].calls = 0
         /\ InNoBucket(tasks[i].msg)
         /\ DeleteCount(Handle(i)) = 0
         /\ tasks[i].pc = "returned" => tasks[i].outcome = "skipped"
    /\ (tasks[i].canProcess /\ tasks[i].pc = "returned") =>
         /\ tasks[i].outcome # "skipped"
         /\ ~tasks[i].alreadyProcessed => tasks[i].calls = 1

\* the step that calls canProcess and gets false, and the step that skips
C6_SkipStep ==
  /\ \A i \in 1..Len(tasks') :
       (/\ tasks'[i].pc = "awaitCanProcess" /\ ~tasks'[i].canProcess
        /\ (i \in Tasks => tasks[i].pc # "awaitCanProcess")) =>
         /\ processedMessages' = processedMessages
         /\ backoffEntries' = backoffEntries
  /\ \A i \in Tasks :
       (/\ i <= Len(tasks')
        /\ tasks[i].pc = "awaitCanProcess" /\ ~tasks[i].canProcess
        /\ tasks'[i].pc = "returned") =>
         /\ processedMessages' = processedMessages
         /\ backoffEntries' = backoffEntries
         /\ tasks'[i].calls = 0

\* C6: when a backoff store is configured and canProcess(m) answers false
\* for a delivery, the handler is not invoked, the message is in no bucket
\* and in no delete entry, and the step that skips it leaves both stores
\* unchanged; a delivery for which canProcess(m) answers true is never
\* skipped: the handler is invoked for it (unless the idempotency check
\* suppresses it as a duplicate).
C6_BackoffGating == [](C6_Gated) /\ [][C6_SkipStep]_vars

\* a skipped delivery next to one whose backoff has run out
C6_Witness ==
  /\ loop = "processing"
  /\ \E i, j \in Tasks :
       /\ tasks[i].outcome = "skipped"
       /\ tasks[j].pc = "awaitHandle" /\ tasks[j].calls = 1
       /\ getRetryCount(backoffEntries, tasks[j].msg.MessageId) > 0

\* C7: when the handler throws FailureException for m the message is
\* deleted and, with an idempotency store configured, the pre-mark of that
\* delivery stays in the store until its TTL runs out, so that m is still
\* answered "processed" and a redelivery is suppressed.
C7_FailureKeepsIdempotencyEntry ==
  \A i \in Tasks :
    tasks[i].outcome = "failure" =>
      /\ BatchDone => DeleteCount(Handle(i)) = 1
      /\ (config.idempotencyStore /\ now < tasks[i].expiry) =>
           hasProcessed(processedMessages, tasks[i].msg.MessageId, now)

C8_RetryStep ==
  \A i \in Tasks :
    (/\ i <= Len(tasks')
     /\ config.idempotencyStore
     /\ tasks[i].outcome = "none" /\ tasks'[i].outcome = "retry") =>
      ~hasProcessed(processedMessages', tasks[i].msg.MessageId, now')

\* C8: with the pre-mark, a delivery of m that ends classified retry
\* (RetryException or unrecognised throw) leaves hasProcessed(m) false, so
\* that a later delivery of m is dispatched again.
C8_RetryLeavesUnmarked == [][C8_RetryStep]_vars

C9_SuccessStep ==
  \A i \in Tasks :
    (/\ i <= Len(tasks')
     /\ tasks[i].outcome = "none" /\ tasks'[i].outcome = "success") =>
      /\ config.idempotencyStore =>
           hasProcessed(processedMessages', tasks[i].msg.MessageId, now')
      /\ config.backoffStore =>
           /\ getRetryCount(backoffEntries', tasks[i].msg.MessageId) = 0
           /\ canProcess(backoffEntries', tasks[i].msg.MessageId, now')

\* C9: when a delivery of m is classified success by a handler invocation,
\* hasProcessed(m) is true (idempotency store configured) and the backoff
\* entry of m is cleared: getRetryCount(m) = 0 and canProcess(m) is true
\* (backoff store configured).
C9_SuccessMarksAndClears == [][C9_SuccessStep]_vars

\* the Entries a DeleteMessageBatch command for a bucket carries
EntriesOf(bucket) ==
  [k \in 1..Len(bucket) |-> [Id |-> k - 1, ReceiptHandle |-> bucket[k].ReceiptHandle]]

UnionEntries == EntriesOf(successfulMessages \o permanentFailureMessages)

\* C10 as stated: at most one DeleteMessageBatch command per batch, its
\* entries the union of the successful and permanentFailure buckets.
C10_SingleDeleteCall ==
  /\ Len(deleteCalls) <= 1
  /\ (BatchDone /\ Len(deleteCalls) = 1) => deleteCalls[1] = UnionEntries

ExpectedDeleteCalls ==
  (IF Len(successfulMessages) > 0 THEN <<EntriesOf(successfulMessages)>> ELSE <<>>)
  \o (IF Len(permanentFailureMessages) > 0
      THEN <<EntriesOf(permanentFailureMessages)>> ELSE <<>>)

\* C10 amended: no delete is sent while the per-message work runs; after
\* it at most two DeleteMessageBatch commands are sent, one for the
\* successful bucket if it is not empty and then one for the
\* permanentFailure bucket if it is not empty, which together carry every
\* message of the two buckets once; in both dispatch modes.
C10_DeleteCallPerBucket ==
  /\ Len(deleteCalls) <= 2
  /\ loop = "processing" => deleteCalls = <<>>
  /\ BatchDone =>
       /\ deleteCalls = ExpectedDeleteCalls
       /\ \A i \in Tasks :
            DeleteCount(Handle(i)) =
              IF InBucket(tasks[i].msg, successfulMessages \o permanentFailureMessages)
              THEN 1 ELSE 0

C10_Witness ==
  /\ BatchDone
  /\ Len(deleteCalls) = 2
  /\ Len(successfulMessages) > 0 /\ Len(permanentFailureMessages) > 0

\* ------------------------------------------------ DoubleBuffer properties
ActiveKeys == keysOf(Container(BS, activeBuffer))

FlushFailedEvent == event.outcome \in {"threw", "unhandledRejection"}

\* C11: whenever no flush is in progress, the keys passed to a successful
\* flushCallback together with the keys in the active buffer are exactly the
\* keys ever set: no key is lost, whatever the triggers and the callback's
\* outcomes were.
C11_NoKeyLost ==
  ~isFlushing => emitted \cup ActiveKeys = everSet

C12_RolledBack ==
  FlushFailedEvent =>
    /\ Container(BS, activeBuffer) = passed
    /\ ~isFlushing

C12_NextFlushStep ==
  (~isFlushing /\ isFlushing') => keysOf(passed) \subseteq keysOf(passed')

\* C12: when flushCallback fails, the keys and values that were in the
\* active buffer when the flush started are in the active buffer again and
\* the in-flight flag is unset; and the next flush passes all those keys to
\* flushCallback.
C12_Rollback == [](C12_RolledBack) /\ [][C12_NextFlushStep]_vars

\* a second flush is in progress after a first one that failed
C12_Witness ==
  /\ isFlushing
  /\ callbackCalls = 2
  /\ emitted = {}
  /\ passed # EmptyMap
  /\ Container(BS, flushBuffer) = passed

C13_OneFlush ==
  /\ Len(pending) <= 1
  /\ isFlushing <=> Len(pending) = 1

C13_TriggerStep ==
  (isFlushing /\ event'.op \in Triggers /\ event'.outcome = "returned") =>
    /\ activeBuffer' = activeBuffer
    /\ flushBuffer' = flushBuffer
    /\ pending' = pending
    /\ callbackCalls' = callbackCalls
    /\ passed' = passed

\* C13: at most one flushCallback call is unsettled at any instant, and a
\* trigger (timer, size threshold, forceFlush, stop) that arrives while
\* isFlushing is set returns without swapping the buffers and without
\* calling flushCallback.
C13_SingleFlush == [](C13_OneFlush) /\ [][C13_TriggerStep]_vars

\* stop() arrived during a flush and has returned
C13_Witness ==
  /\ isFlushing
  /\ Len(pending) = 1
  /\ event = Event("stop", "returned")

\* the last step was a call of set or update
WriteEvent(e) == e.op \in {"set", "update"} /\ e.outcome = "returned"

\* the container flushBuffer referred to before the step is as it was
FlushContainerKept == IF flushBuffer = "A" THEN bufferA' = bufferA ELSE bufferB' = bufferB

C14_Distinct ==
  /\ activeBuffer # flushBuffer
  /\ {activeBuffer, flushBuffer} = {"A", "B"}

C14_WriteStep == WriteEvent(event') => FlushContainerKept

\* C14: activeBuffer and flushBuffer always refer to two different
\* containers, one to bufferA and the other to bufferB, and a set or update
\* call changes only the container activeBuffer refers to when it is made.
C14_TwoBuffers == [](C14_Distinct) /\ [][C14_WriteStep]_vars

\* after a swap, an update has accumulated into bufferB only
C14_Witness ==
  /\ activeBuffer = "B" /\ flushBuffer = "A"
  /\ event = Event("update", "returned")
  /\ \E k \in Keys : bufferB[k] = MaxValue /\ bufferA[k] = 1

C15_Frozen == isFlushing => Container(BS, flushBuffer) = passed

C15_WriteStep ==
  (isFlushing /\ isFlushing' /\ WriteEvent(event')) =>
    /\ flushBuffer' = flushBuffer
    /\ FlushContainerKept
    /\ keysOf(Container(BS, activeBuffer)') # {}
    /\ everSet' \subseteq everSet \cup keysOf(Container(BS, activeBuffer)')

\* C15: from the swap until flushCallback settles, the container passed to
\* flushCallback holds what it held at the swap; set and update calls made
\* in between change the other container only.
C15_NoLateWrites == [](C15_Frozen) /\ [][C15_WriteStep]_vars

\* a set made while flushCallback runs
C15_Witness ==
  /\ isFlushing
  /\ event = Event("set", "returned")
  /\ passed # EmptyMap
  /\ Container(BS, flushBuffer) = passed
  /\ \E k \in Keys :
       Container(BS, activeBuffer)[k] # NoValue /\ Container(BS, flushBuffer)[k] = NoValue

StopReturned == event.op = "stop" /\ event.outcome \in {"returned", "completed"}

\* C16: when stop() has returned without an error, every key set before it
\* was called has been passed to a flushCallback call that succeeded, and
\* (no set or update having been called since) the active buffer is empty;
\* also when stop() was called while another flush was in progress.
C16_StopFlushesAll ==
  StopReturned =>
    /\ stopKeys \subseteq emitted
    /\ ~writtenSinceStop => ActiveKeys = {}

\* the container activeBuffer referred to before the step, after the step
OldActiveAfter == IF activeBuffer = "A" THEN bufferA' ELSE bufferB'

C17_SizeStep ==
  (/\ ~isFlushing
   /\ maxBufferSize # 0
   /\ WriteEvent(event')
   /\ size(Container(BS, activeBuffer)) = maxBufferSize - 1
   /\ size(OldActiveAfter) = maxBufferSize) =>
    /\ isFlushing'
    /\ callbackCalls' = callbackCalls + 1
    /\ pending' = Append(pending, event'.op)
    /\ passed' = OldActiveAfter
    /\ flushBuffer' = activeBuffer
    /\ keysOf(Container(BS, activeBuffer)') = {}

\* C17: with maxBufferSize = n and no flush in progress, the set or update
\* call that brings the active buffer to n keys invokes flushCallback once,
\* with exactly the keys and values accumulated so far, and leaves the
\* active buffer empty.
C17_SizeTriggeredFlush == [][C17_SizeStep]_vars

\* C18: when flushCallback fails in a flush triggered by forceFlush, stop,
\* set or update, the error is thrown to the caller of that operation.
C18_ErrorReachesCaller ==
  (event.op \in {"forceFlush", "stop", "set", "update"} /\ FlushFailedEvent) =>
    event.outcome = "threw"

\* ------------------------------------------------- batch ordering (Spec)
\* C19: in sequential mode a message of the batch is not started (no
\* backoff or idempotency check, no handler call) before every message at
\* an earlier position has returned from processMessage with its outcome.
C19_SequentialOrder ==
  ~config.processInParallel =>
    \A j \in Tasks :
      tasks[j].pc # "pending" =>
        \A i \in 1..(j - 1) : tasks[i].pc = "returned" /\ tasks[i].outcome # "none"

\* the second handler call of a sequential batch, after the first returned
C19_Witness ==
  /\ ~config.processInParallel
  /\ loop = "processing"
  /\ Len(tasks) = 2
  /\ tasks[1].pc = "returned" /\ tasks[1].calls = 1
  /\ tasks[2].pc = "awaitHandle"

BatchFinished ==
  /\ \A i \in Tasks : tasks[i].pc = "returned"
  /\ deleteCalls = ExpectedDeleteCalls

C20_ReceiveStep == polls' # polls => (BatchFinished /\ loop \in {"none", "top", "exited"})

BucketOf(outcome) ==
  CASE outcome \in {"success", "duplicate"} -> successfulMessages
    [] outcome = "retry" -> retryMessages
    [] outcome = "failure" -> permanentFailureMessages
    [] OTHER -> <<>>

Classified == {i \in Tasks : tasks[i].outcome \notin {"none", "skipped"}}

\* C21: in parallel mode, once every task of the batch has returned (the
\* delete step is reached), each message not skipped by backoff is in the
\* bucket of its own outcome exactly once and in no other bucket, a skipped
\* message is in none, and the buckets hold nothing else.
C21_BucketsMatchOutcomes ==
  (config.processInParallel /\ \A i \in Tasks : tasks[i].pc = "returned") =>
    /\ \A i \in Tasks :
         IF i \in Classified
         THEN /\ Occurrences(tasks[i].msg, BucketOf(tasks[i].outcome)) = 1
              /\ Occurrences(tasks[i].msg, successfulMessages \o retryMessages
                                            \o permanentFailureMessages) = 1
         ELSE InNoBucket(tasks[i].msg)
    /\ Len(successfulMessages) + Len(retryMessages) + Len(permanentFailureMessages)
         = Cardinality(Classified)

\* two tasks finished in the reverse of their arrival order, one more failed
C21_Witness ==
  /\ config.processInParallel
  /\ loop = "awaitDeleteSuccessful"
  /\ Len(tasks) = 2
  /\ tasks[1].outcome = "success" /\ tasks[2].outcome = "duplicate"
  /\ successfulMessages = <<tasks[2].msg, tasks[1].msg>>

\* ------------------------------------------------- termination (FairSpec)
\* C22: after stop() the polling loop terminates: it reaches its end, by
\* then the batch in flight has been processed to completion and its
\* deletes have been sent, and while the consumer stays stopped no receive
\* is issued and, once the loop has ended, no handler is dispatched.
C22_Exits == (~isRunning) ~> (loop \in {"none", "exited"})

C22_StoppedStep ==
  /\ (~isRunning /\ ~isRunning') => polls' = polls
  /\ (loop = "exited" /\ loop' = "exited") => tasks' = tasks /\ deleteCalls' = deleteCalls

C22_StopTerminates ==
  /\ C22_Exits
  /\ [](loop = "exited" => BatchFinished)
  /\ [][C22_StoppedStep]_vars

\* stopped while a handler of the first batch was running: the batch was
\* finished and deleted, and the loop ended without a second receive
C22_Witness ==
  /\ loop = "exited"
  /\ ~isRunning
  /\ polls = 1
  /\ Len(tasks) = 2
  /\ Len(deleteCalls) = 2

\* ----------------------------------------------- receive error (FairSpec)
\* the step in which receiveMessages() rejects
C23_ReceiveFails ==
  loop = "awaitReceive" /\ loop' # "awaitReceive" /\ receiveResult' = "error"

C23_ErrorStep ==
  /\ C23_ReceiveFails =>
       /\ isRunning' = isRunning
       /\ loop' # "exited"
       /\ processedMessages' = processedMessages
       /\ backoffEntries' = backoffEntries
  /\ (C23_ReceiveFails \/ (receiveResult = "error" /\ loop # "awaitReceive")) =>
       /\ tasks' = tasks
       /\ deleteCalls' = deleteCalls
       /\ processedMessages' = processedMessages
       /\ backoffEntries' = backoffEntries

\* C23: a receive that fails leaves isRunning and both stores as they are
\* and does not end the loop; from then until the next receive no handler
\* is dispatched and no delete is sent; and unless the consumer is stopped
\* a later receive is issued.
C23_ReceiveErrorNotFatal ==
  /\ [][C23_ErrorStep]_vars
  /\ (receiveResult = "error" /\ loop = "sleeping" /\ polls < MaxPolls)
       ~> (loop = "awaitReceive" \/ ~isRunning)

\* the first receive failed, the consumer slept 5 s and receives again
C23_Witness ==
  /\ isRunning
  /\ loop = "awaitReceive"
  /\ receiveResult = "error"
  /\ polls = 2
  /\ now = errorSleepMs
  /\ tasks = <<>>

\* ------------------------------------------------ delete error (FairSpec)
\* the DeleteMessageBatch commands of the batch that settled with r
SettledWith(r) == {k \in 1..Len(deleteResults) : deleteResults[k] = r}

HandlesOf(entries) == {entries[k].ReceiptHandle : k \in 1..Len(entries)}

\* the receipt handles the queue was told to delete, and did
DeletedHandles == UNION {HandlesOf(deleteCalls[k]) : k \in SettledWith("ok")}

\* the step in which sqsClient.send of a delete command rejects
C24_DeleteFails ==
  /\ loop \in {"awaitDeleteSuccessful", "awaitDeletePermanent"}
  /\ deleteResults' = Append(deleteResults, "error")

C24_ErrorStep ==
  C24_DeleteFails =>
    /\ isRunning' = isRunning
    /\ processedMessages' = processedMessages
    /\ backoffEntries' = backoffEntries
    /\ loop' = IF loop = "awaitDeleteSuccessful" /\ Len(permanentFailureMessages) > 0
               THEN "awaitDeletePermanent"
               ELSE "top"

C24_Redelivered ==
  /\ Len(deleteResults) <= Len(deleteCalls)
  /\ \A k \in SettledWith("error") : HandlesOf(deleteCalls[k]) \cap DeletedHandles = {}
  /\ (BatchDone /\ SettledWith("error") # {}) => deleteCalls = ExpectedDeleteCalls

\* C24: a DeleteMessageBatch that fails leaves isRunning and both stores
\* as they are and processMessages goes on as after a success (the delete
\* of the permanent failures is still sent, then the loop is at its head);
\* the receipt handles of the failed command are not deleted by any other
\* command; and unless the consumer is stopped the next receive is issued.
C24_DeleteErrorNotFatal ==
  /\ [][C24_ErrorStep]_vars
  /\ []C24_Redelivered
  /\ (SettledWith("error") # {} /\ loop # "processing" /\ polls < MaxPolls)
       ~> (loop = "awaitReceive" \/ ~isRunning)

\* the delete of the successful message failed, the one of the permanent
\* failure was sent all the same, and the loop receives again
C24_Witness ==
  /\ isRunning
  /\ loop = "awaitReceive"
  /\ polls = 2
  /\ deleteResults = <<"error", "ok">>
  /\ Len(deleteCalls) = 2
  /\ DeletedHandles = {p.ReceiptHandle : p \in {permanentFailureMessages[1]}}

\* --------------------------------------------------- metadata (MetadataSpec)
\* C25: the metadata handed to the handler has retryCount equal to the
\* number the ApproximateReceiveCount attribute renders, 0 when the
\* attribute is absent, and isLastAttempt true exactly when maxReceiveCount
\* is configured and retryCount has reached it.
C25_Metadata ==
  call.op = "handle" =>
    /\ call.metadata.retryCount =
         (IF call.attribute = Absent THEN 0 ELSE call.receiveCount)
    /\ call.metadata.isLastAttempt =
         (/\ sqsConfig.maxReceiveCount # Undefined
          /\ call.metadata.retryCount >= sqsConfig.maxReceiveCount)

\* a two-digit receive count that has just reached the threshold
C25_Witness ==
  /\ call.op = "handle"
  /\ call.attribute = <<1, 2>>
  /\ sqsConfig.maxReceiveCount = 12
  /\ call.metadata = [retryCount |-> 12, isLastAttempt |-> TRUE]

\* ------------------------------------ idempotency store (IdempotencyStoreSpec)
\* C26: hasProcessed(id) returns true exactly when the last
\* markProcessed(id, t) not followed by remove(id) was made less than t
\* seconds ago; at t seconds and later it returns false.
C26_HasProcessed ==
  call.op = "hasProcessed" =>
    call.result = (/\ marks[call.id].marked
                   /\ now - marks[call.id].at < marks[call.id].ttlSeconds * 1000)

\* asked exactly when the TTL of 2 s has run out: the entry is not reported
C26_Witness ==
  /\ call.op = "hasProcessed"
  /\ ~call.result
  /\ marks[call.id] = [marked |-> TRUE, at |-> TickMs, ttlSeconds |-> 2]
  /\ now = 3 * TickMs

\* --------------------------------------------- backoff store (BackoffStoreSpec)
\* nextRetryInstant of the claims, from the fields of an entry
nextRetryInstant(entry) ==
  entry.lastFailureTime
    + (IF entry.strategy = "fixed"
       THEN toMilliseconds(entry.baseDelay, entry.baseDelayUnit)
       ELSE toMilliseconds(entry.baseDelay, entry.baseDelayUnit) * 2^(entry.retryCount - 1))

C27_Calls ==
  /\ \A m \in MsgIds : (backoffEntries[m] = NoBackoffEntry) <=> (retries[m].count = 0)
  /\ call.op = "canProcess" =>
       /\ call.result = (\/ backoffEntries[call.id] = NoBackoffEntry
                         \/ now >= nextRetryInstant(backoffEntries[call.id]))
       /\ call.result = (\/ retries[call.id].count = 0
                         \/ now >= retries[call.id].nextRetryTime)
  /\ call.op = "getRetryCount" =>
       /\ call.result = retries[call.id].count
       /\ (call.result = 0) <=> (backoffEntries[call.id] = NoBackoffEntry)

C27_ClearStep ==
  call'.op = "clear" =>
    /\ backoffEntries'[call'.id] = NoBackoffEntry
    /\ \A m \in MsgIds \ {call'.id} : backoffEntries'[m] = backoffEntries[m]

\* C27: canProcess(id) is true exactly when id has no entry (no failure
\* was recorded since the last clear) or the clock has reached the entry's
\* nextRetryInstant, which is also the instant recordFailure returned;
\* getRetryCount(id) is the number of failures since the last clear, 0
\* exactly when there is no entry; clear(id) removes the entry of id only.
C27_BackoffStoreReads == []C27_Calls /\ [][C27_ClearStep]_vars

\* asked at the very instant the second exponential backoff ends
C27_Witness ==
  /\ call.op = "canProcess"
  /\ call.result
  /\ retries[call.id].count = 2
  /\ retries[call.id].strategy = "exponential"
  /\ now = retries[call.id].nextRetryTime

\* C28: recordFailure creates the entry with retryCount 1 or increments
\* retryCount by exactly 1, sets lastFailureTime to now, and returns
\* now + baseDelay (fixed) or now + baseDelay * 2^(retryCount - 1)
\* (exponential): the first exponential backoff is the base delay.
C28_RecordFailure ==
  call.op = "recordFailure" =>
    LET entry == backoffEntries[call.id]
    IN /\ entry.retryCount = call.previous.count + 1
       /\ call.previous.count = 0 => entry.retryCount = 1
       /\ entry.lastFailureTime = now
       /\ call.result = now + (IF call.strategy = "fixed"
                               THEN call.baseDelayMs
                               ELSE call.baseDelayMs * 2^(entry.retryCount - 1))
       /\ (call.strategy = "exponential" /\ entry.retryCount = 1) =>
            call.result = now + call.baseDelayMs

\* the third failure in a row under the exponential strategy
C28_Witness ==
  /\ call.op = "recordFailure"
  /\ call.strategy = "exponential"
  /\ backoffEntries[call.id].retryCount = 3
  /\ call.result = now + 4 * call.baseDelayMs

\* a recordFailure that follows another one on the same id, both exponential
C29_Successive ==
  /\ call.op = "recordFailure"
  /\ call.strategy = "exponential"
  /\ call.previous.count > 0
  /\ call.previous.strategy = "exponential"

\* C29 as stated: successive exponential recordFailure calls on an id
\* return non-decreasing instants.
C29_Monotonic == C29_Successive => call.result >= call.previous.nextRetryTime

\* C29, amended: successive exponential recordFailure calls on an id that
\* pass the same base delay return non-decreasing instants.
C29_MonotonicSameBaseDelay ==
  (C29_Successive /\ call.baseDelayMs = call.previous.baseDelayMs) =>
    call.result >= call.previous.nextRetryTime

\* two failures at the same instant: the second returns a later instant
C29_Witness ==
  /\ C29_Successive
  /\ call.baseDelayMs = call.previous.baseDelayMs
  /\ backoffEntries[call.id].lastFailureTime = call.previous.nextRetryTime - call.baseDelayMs
  /\ call.result = call.previous.nextRetryTime + call.baseDelayMs

\* ------------------------------------------------ configuration (ConfigSpec)
\* C30: a consumer whose sqsConfig the schema rejects (maxNumberOfMessages
\* 0 or above 10, waitTimeSeconds outside 0..20, malformed queue URL) is
\* never running and never issues a receive.
C30_InvalidConfigNeverStarts ==
  ~sqsQueueConfigSchema(sqsConfig) => (~isRunning /\ polls = 0)

\* ------------------------------------------- concurrent deliveries (Spec)
\* two deliveries of one message id in the batch
SameId(i, j) == i # j /\ tasks[i].msg.MessageId = tasks[j].msg.MessageId

\* C33: with an idempotency store, the handler is never running for two
\* deliveries of the same message id at once.
C33_PreMarkDeduplicates ==
  config.idempotencyStore =>
    \A i, j \in Tasks :
      SameId(i, j) => ~(tasks[i].pc = "awaitHandle" /\ tasks[j].pc = "awaitHandle")

\* C34: in the first batch a delivery is placed in a DeleteMessageBatch
\* command only if the handler succeeded, or threw FailureException, for
\* some delivery of its message id.
C34_DeletedOnlyAfterHandled ==
  polls = 1 =>
    \A i \in Tasks :
      DeleteCount(Handle(i)) > 0 =>
        \E j \in Tasks :
          /\ tasks[j].msg.MessageId = tasks[i].msg.MessageId
          /\ tasks[j].outcome \in {"success", "failure"}

\* ------------------------------------------- flush buffer (DoubleBufferSpec)
\* C35: whenever no flush is in progress the flush buffer is empty, so every
\* swap makes an empty container the active buffer.
C35_FlushBufferEmpty ==
  ~isFlushing => keysOf(Container(BS, flushBuffer)) = {}

\* ------------------------------------------ periodic timer (DoubleBufferSpec)
\* stop() has been called, has returned, and start() was not called since
StoppedAndReturned ==
  /\ flushTimer = NoTimer
  /\ timersCreated > 0
  /\ \A i \in 1..Len(pending) : pending[i] # "stop"

C37_TimerStep ==
  StoppedAndReturned => ~(event'.op = "timer" /\ callbackCalls' = callbackCalls + 1)

\* C37: after stop() has returned, and until start() is called again, no
\* flush is started by the periodic timer, however often start() had been
\* called before.
C37_TimerReleased == [][C37_TimerStep]_vars

\* ------------------------------------------------ update (DoubleBufferSpec)
\* what update(k, v, reducer) leaves in a container that held map
Updated(map, k, v) ==
  [map EXCEPT ![k] = IF map[k] # NoValue THEN reducer(map[k], v) ELSE v]

\* the container flushBuffer referred to before the step, after the step
OldFlushAfter == IF flushBuffer = "A" THEN bufferA' ELSE bufferB'

\* the original statement: the buffer that is active after the call
C40_LiteralStep ==
  \A k \in Keys, v \in Values :
    Update(k, v) =>
      /\ Container(BS, activeBuffer)' = Updated(Container(BS, activeBuffer), k, v)
      /\ Container(BS, flushBuffer)' = Container(BS, flushBuffer)

C40_UpdateStep ==
  \A k \in Keys, v \in Values :
    Update(k, v) =>
      /\ OldActiveAfter = Updated(Container(BS, activeBuffer), k, v)
      /\ OldFlushAfter = Container(BS, flushBuffer)
      /\ activeBuffer' # activeBuffer =>
            /\ pending' = Append(pending, "update")
            /\ passed' = OldActiveAfter
      /\ getActiveBufferSize(BS)' =
            Cardinality({j \in Keys : Container(BS, activeBuffer)'[j] # NoValue})

ClassifiedRetry(i) ==
  /\ i \in 1..Len(tasks) /\ i \in 1..Len(tasks')
  /\ tasks[i].outcome = "none"
  /\ tasks'[i].outcome = "retry"

C38_RetryStep ==
  config.backoffStore =>
    \A i \in 1..Len(tasks) :
      ClassifiedRetry(i) =>
        /\ getRetryCount(backoffEntries', tasks[i].msg.MessageId) >= 1
        /\ ~canProcess(backoffEntries', tasks[i].msg.MessageId,
                       backoffEntries'[tasks[i].msg.MessageId].lastFailureTime)

\* C38: with a backoff store, right after a delivery of m is classified
\* retry the store's retry count for m is at least 1 and canProcess(m) is
\* false at the instant the failure was recorded.
C38_RetryLeavesBackoff == [][C38_RetryStep]_vars

\* ------------------------------------------- start / stop / start again
\* the poll() invocations that have not returned
ActiveLoops == {i \in 1..Len(loops) : loops[i] # "exited"}

\* while (this.isRunning): the next receiveMessages(), or the return
pollTop(ls, i, running) ==
  [ls EXCEPT ![i] = IF running THEN "awaitReceive" ELSE "exited"]

\* what poll() i does at the top of its loop, with the invocations active then
TopCall(i) ==
  IF isRunning
  THEN [op |-> "receive", loop |-> i, active |-> ActiveLoops]
  ELSE [op |-> "return", loop |-> i, active |-> ActiveLoops]

restartFrame ==
  <<bufferVars, marks, retries, redisCalls, redis, config, sqsConfig, loop, sleepUntil,
    polls, now, receiveResult, batchVars>>

\* start(): warns and returns when running, else sets the flag and calls
\* poll(), which runs to its first await
StartAgain ==
  /\ IF isRunning
     THEN /\ call' = [op |-> "start", result |-> "warn"]
          /\ UNCHANGED <<isRunning, loops>>
     ELSE /\ Len(loops) < MaxLoops
          /\ isRunning' = TRUE
          /\ loops' = Append(loops, "awaitReceive")
          /\ call' = [op |-> "start", result |-> "poll"]
  /\ UNCHANGED restartFrame

\* stop(): clears the flag, nothing else
StopAgain ==
  /\ isRunning' = FALSE
  /\ call' = [op |-> "stop"]
  /\ UNCHANGED <<loops, restartFrame>>

\* the receive of poll() i settles: a batch, no messages, or an error
PollReceiveSettles(i, r) ==
  /\ loops[i] = "awaitReceive"
  /\ loops' = [loops EXCEPT ![i] = IF r = "messages" THEN "processing" ELSE "sleeping"]
  /\ call' = [op |-> "received", loop |-> i, result |-> r]
  /\ UNCHANGED <<isRunning, restartFrame>>

\* processMessages of poll() i has returned
PollBatchDone(i) ==
  /\ loops[i] = "processing"
  /\ loops' = pollTop(loops, i, isRunning)
  /\ call' = TopCall(i)
  /\ UNCHANGED <<isRunning, restartFrame>>

\* the sleep of poll() i has elapsed
PollSleepDone(i) ==
  /\ loops[i] = "sleeping"
  /\ loops' = pollTop(loops, i, isRunning)
  /\ call' = TopCall(i)
  /\ UNCHANGED <<isRunning, restartFrame>>

RestartInit ==
  /\ NoCalls
  /\ DoubleBuffer(0)
  /\ SQSConsumer(DefaultSqsConfig, DefaultConfig)

RestartNext ==
  \/ StartAgain
  \/ StopAgain
  \/ \E i \in 1..Len(loops), r \in {"messages", "empty", "error"} : PollReceiveSettles(i, r)
  \/ \E i \in 1..Len(loops) : PollBatchDone(i)
  \/ \E i \in 1..Len(loops) : PollSleepDone(i)

RestartSpec == RestartInit /\ [][RestartNext]_vars

\* C32: a polling loop issues a receive from its loop condition only when it
\* is the only poll() invocation of the instance that has not returned.
C32_SingleLoop ==
  call.op = "receive" => call.active = {call.loop}

\* ------------------------------------------------------ RedisBackoffStore
\* const retryCount = currentRetryCount ? parseInt(currentRetryCount, 10) + 1 : 1
redisRetryCount(currentRetryCount) ==
  IF currentRetryCount # <<>> THEN parseInt(currentRetryCount) + 1 ELSE 1

\* the hash recordFailure writes with HSET
redisEntry(retryCount, baseDelayMs, strategy, t) ==
  [retryCount |-> toString(retryCount), lastFailureTime |-> toString(t),
   baseDelay |-> toString(baseDelayMs), baseDelayUnit |-> "ms", strategy |-> strategy]

\* getRetryCount: HGET retryCount, 0 when there is none
redisGetRetryCount(h, m) ==
  IF h[m].retryCount # <<>> THEN parseInt(h[m].retryCount) ELSE 0

redisFrame ==
  <<bufferVars, marks, loops, config, sqsConfig, isRunning, loop, sleepUntil, polls, now,
    receiveResult, batchVars>>

\* recordFailure up to its first await: HGET retryCount is sent and answered
RedisRecordFailure(m, baseDelayMs, strategy) ==
  /\ retries[m].count < MaxRetries
  /\ Len(redisCalls) < MaxInFlight
  /\ redisCalls' = Append(redisCalls,
                          [id |-> m, pc |-> "awaitHget", baseDelayMs |-> baseDelayMs,
                           strategy |-> strategy,
                           currentRetryCount |-> redis[m].retryCount, retryCount |-> 0])
  /\ retries' = [retries EXCEPT ![m].count = @ + 1]
  /\ call' = [op |-> "recordFailure", id |-> m]
  /\ UNCHANGED <<redis, redisFrame>>

\* the call resumes with the HGET reply, computes the count and sends HSET
RedisHgetResumes(i) ==
  /\ redisCalls[i].pc = "awaitHget"
  /\ LET c == redisCalls[i]
         retryCount == redisRetryCount(c.currentRetryCount)
     IN /\ redis' = [redis EXCEPT
                       ![c.id] = redisEntry(retryCount, c.baseDelayMs, c.strategy, now)]
        /\ redisCalls' = [redisCalls EXCEPT ![i].pc = "awaitHset",
                                            ![i].retryCount = retryCount]
        /\ call' = [op |-> "hset", id |-> c.id]
  /\ UNCHANGED <<retries, redisFrame>>

\* the call resumes with the HSET reply and returns lastFailureTime + delay
RedisHsetResumes(i) ==
  /\ redisCalls[i].pc = "awaitHset"
  /\ LET c == redisCalls[i]
     IN call' = [op |-> "recordFailureReturned", id |-> c.id,
                 result |-> now + (IF c.strategy = "fixed"
                                   THEN c.baseDelayMs
                                   ELSE c.baseDelayMs * Pow2(c.retryCount - 1))]
  /\ redisCalls' = Without(redisCalls, i)
  /\ UNCHANGED <<redis, retries, redisFrame>>

RedisGetRetryCount(m) ==
  /\ call' = [op |-> "getRetryCount", id |-> m, result |-> redisGetRetryCount(redis, m)]
  /\ UNCHANGED <<redis, redisCalls, retries, redisFrame>>

RedisBackoffNext ==
  \/ \E m \in MsgIds, baseDelayMs \in BaseDelays, strategy \in Strategies :
       RedisRecordFailure(m, baseDelayMs, strategy)
  \/ \E i \in 1..Len(redisCalls) : RedisHgetResumes(i)
  \/ \E i \in 1..Len(redisCalls) : RedisHsetResumes(i)
  \/ \E m \in MsgIds : RedisGetRetryCount(m)

RedisBackoffSpec == StoreInit /\ [][RedisBackoffNext]_vars

\* the recordFailure calls on m that have not returned
InFlight(m) == {i \in 1..Len(redisCalls) : redisCalls[i].id = m}

\* C36: when n recordFailure calls on an id have returned, none is in
\* flight and clear was not called, getRetryCount(id) returns n, also when
\* the calls overlapped.
C36_RedisCountsEveryFailure ==
  (call.op = "getRetryCount" /\ InFlight(call.id) = {}) =>
    call.result = retries[call.id].count

\* ------------------------------ visibility timeout of a retried message
\* Max 12 hours
MaxVisibilityTimeout == 43200

BaseDelayValues == {1, 5}

TimeUnits == {"ms", "sec", "min", "hour"}

\* calculateBackoffDelay(retryCount)
calculateBackoffDelay(c, retryCount) ==
  LET baseDelayMs == toMilliseconds(c.backoffBaseDelay, c.backoffBaseDelayUnit)
  IN IF c.retryStrategy = "fixed" THEN baseDelayMs ELSE baseDelayMs * Pow2(retryCount)

\* calculateVisibilityTimeout(message)
calculateVisibilityTimeout(c, ApproximateReceiveCount) ==
  LET retryCount ==
        parseInt(IF ApproximateReceiveCount # Absent THEN ApproximateReceiveCount ELSE <<0>>)
      seconds == calculateBackoffDelay(c, retryCount) \div 1000
  IN IF seconds < MaxVisibilityTimeout THEN seconds ELSE MaxVisibilityTimeout

\* the consumer's options: base delay, unit and strategy
VisibilityInit ==
  /\ NoCalls
  /\ DoubleBuffer(0)
  /\ \E d \in BaseDelayValues, u \in TimeUnits, st \in Strategies :
       SQSConsumer(DefaultSqsConfig,
                   [processInParallel |-> FALSE, idempotencyStore |-> FALSE,
                    backoffStore |-> FALSE, retryStrategy |-> st,
                    backoffBaseDelay |-> d, backoffBaseDelayUnit |-> u])

\* processMessages, for a message classified retry: changeMessageVisibility
ChangeMessageVisibility(n, withAttribute) ==
  /\ LET attribute == IF withAttribute THEN toString(n) ELSE Absent
     IN call' = [op |-> "changeMessageVisibility", ApproximateReceiveCount |-> attribute,
                 VisibilityTimeout |-> calculateVisibilityTimeout(config, attribute)]
  /\ UNCHANGED <<consumerVars, bufferVars, marks, retries>>

VisibilityNext ==
  \E n \in 0..MaxVisibilityCount, withAttribute \in BOOLEAN : ChangeMessageVisibility(n, withAttribute)

VisibilitySpec == VisibilityInit /\ [][VisibilityNext]_vars

\* floor(backoffDelayMs / 1000) with the contract's backoffDelayMs: baseDelay
\* (fixed), baseDelay * 2^(retryCount - 1) (exponential)
ContractSeconds(c, retryCount) ==
  LET baseDelayMs == toMilliseconds(c.backoffBaseDelay, c.backoffBaseDelayUnit)
  IN IF c.retryStrategy = "fixed"
     THEN baseDelayMs \div 1000
     ELSE (baseDelayMs * Pow2(retryCount)) \div 2000

\* the receive count of the message changeMessageVisibility was called for
CallReceiveCount ==
  IF call.ApproximateReceiveCount # Absent THEN parseInt(call.ApproximateReceiveCount) ELSE 0

\* C31: the timeout passed to changeVisibility for a retried message with a
\* receive count of at least 1 is min(43200, floor(backoffDelayMs / 1000))
\* with the contract's backoffDelayMs, and lies in [0, 43200].
C31_VisibilityTimeout ==
  (call.op = "changeMessageVisibility" /\ CallReceiveCount >= 1) =>
    LET seconds == ContractSeconds(config, CallReceiveCount)
    IN /\ call.VisibilityTimeout \in 0..MaxVisibilityTimeout
       /\ call.VisibilityTimeout =
            IF seconds < MaxVisibilityTimeout THEN seconds ELSE MaxVisibilityTimeout

\* ------------------------- the consumer whose handler returns its result
\* what handler.handle does: resolves with a status, or throws
HandleResults == {"success", "retry", "fail", "throw"}

\* the three arrays of processMessages
Buckets ==
  [successfulMessages |-> successfulMessages, retryMessages |-> retryMessages,
   permanentFailureMessages |-> permanentFailureMessages]

ApplyBuckets(b) ==
  /\ successfulMessages' = b.successfulMessages
  /\ retryMessages' = b.retryMessages
  /\ permanentFailureMessages' = b.permanentFailureMessages

categorizeMessage(b, message, status) ==
  CASE status = "success" -> [b EXCEPT !.successfulMessages = Append(@, message)]
    [] status = "retry" -> [b EXCEPT !.retryMessages = Append(@, message)]
    [] status = "fail" ->
         [b EXCEPT !.permanentFailureMessages = Append(@, message)]

\* for (const { message, result } of results) categorizeMessage(...)
RECURSIVE categorizeResults(_, _, _)
categorizeResults(b, ts, k) ==
  IF k > Len(ts)
  THEN b
  ELSE categorizeResults(categorizeMessage(b, ts[k].msg, ts[k].result), ts, k + 1)

\* the two deleteMessages calls that end processMessages
deleteCategorized(b) ==
  deleteMessages(deleteMessages(<<>>, b.successfulMessages), b.permanentFailureMessages)

resultFrame ==
  <<fixedVars, receiveResult, sleepUntil, polls, now, processedMessages, backoffEntries,
    deleteResults>>

ResultStart ==
  /\ ~isRunning /\ loop = "none"
  /\ isRunning' = TRUE
  /\ loop' = "awaitReceive"
  /\ UNCHANGED <<resultFrame, tasks, cur, successfulMessages, retryMessages,
                 permanentFailureMessages, deleteCalls>>

\* the receive resolves with messages: processMessages runs to its first
\* await, with every handler called (parallel) or the first one (sequential)
ResultReceiveMessages(ids) ==
  /\ loop = "awaitReceive"
  /\ tasks' = [k \in 1..Len(ids) |->
                 [msg |-> Message(ids[k], 1, k),
                  pc |-> IF config.processInParallel \/ k = 1
                         THEN "awaitHandle" ELSE "pending",
                  result |-> "none"]]
  /\ cur' = 1
  /\ loop' = "processing"
  /\ UNCHANGED <<resultFrame, isRunning, successfulMessages, retryMessages,
                 permanentFailureMessages, deleteCalls>>

\* handler.handle of message i settles. A throw leaves processMessage and
\* processMessages (nothing catches it there) and reaches the catch of poll.
ResultHandlerSettles(i, r) ==
  /\ tasks[i].pc = "awaitHandle"
  /\ LET ts == [tasks EXCEPT ![i].pc = IF r = "throw" THEN "threw" ELSE "returned",
                             ![i].result = r]
         all == \A k \in 1..Len(ts) : ts[k].pc = "returned"
     IN CASE loop # "processing" ->
               /\ tasks' = ts
               /\ UNCHANGED <<loop, cur, successfulMessages, retryMessages,
                              permanentFailureMessages, deleteCalls>>
          [] loop = "processing" /\ r = "throw" ->
               /\ tasks' = ts
               /\ loop' = "sleeping"
               /\ UNCHANGED <<cur, successfulMessages, retryMessages,
                              permanentFailureMessages, deleteCalls>>
          [] loop = "processing" /\ r # "throw" /\ config.processInParallel ->
               /\ tasks' = ts
               /\ IF all
                  THEN /\ ApplyBuckets(categorizeResults(Buckets, ts, 1))
                       /\ deleteCalls' = deleteCategorized(categorizeResults(Buckets, ts, 1))
                       /\ loop' = "top"
                  ELSE UNCHANGED <<loop, successfulMessages, retryMessages,
                                   permanentFailureMessages, deleteCalls>>
               /\ UNCHANGED cur
          [] loop = "processing" /\ r # "throw" /\ ~config.processInParallel ->
               /\ ApplyBuckets(categorizeMessage(Buckets, ts[i].msg, r))
               /\ IF i < Len(ts)
                  THEN /\ tasks' = [ts EXCEPT ![i + 1].pc = "awaitHandle"]
                       /\ cur' = i + 1
                       /\ UNCHANGED <<loop, deleteCalls>>
                  ELSE /\ tasks' = ts
                       /\ deleteCalls' =
                            deleteCategorized(categorizeMessage(Buckets, ts[i].msg, r))
                       /\ loop' = "top"
                       /\ UNCHANGED cur
  /\ UNCHANGED <<resultFrame, isRunning>>

ResultInit ==
  /\ NoCalls
  /\ DoubleBuffer(0)
  /\ \E p \in BOOLEAN :
       SQSConsumer(DefaultSqsConfig, [DefaultConfig EXCEPT !.processInParallel = p])

ResultNext ==
  \/ ResultStart
  \/ \E ids \in Batches : ResultReceiveMessages(ids)
  \/ \E i \in 1..Len(tasks), r \in HandleResults : ResultHandlerSettles(i, r)

ResultSpec == ResultInit /\ [][ResultNext]_vars

\* C39: when the batch is over, every message of it has been dispatched and
\* every message whose handler ended in success or failure has been deleted,
\* whatever the handler did for the other messages.
C39_HandlerThrowIsolated ==
  loop \in {"top", "sleeping"} =>
    \A i \in 1..Len(tasks) :
      /\ tasks[i].pc # "pending"
      /\ tasks[i].result \in {"success", "fail"} => DeleteCount(Handle(i)) = 1
====
